---- MODULE Spec2Model ----
(***************************************************************************)
(* gitvigil: the webhook ingestion pipeline (signature verification, event *)
(* routing, push/commit processing, backdate detection) as a state machine *)
(* over the record store.  Strings are sequences of characters; times are  *)
(* integer ticks, Hour ticks to the hour.                                  *)
(***************************************************************************)
EXTENDS Integers, Sequences, FiniteSets, TLC

VARIABLES
    cfg,            \* config.Config: WebhookSecret, thresholds, gh configured
    now,            \* the wall clock (time.Now / SQL NOW()), in ticks
    installations,  \* table installations: set of installation ids
    repositories,   \* table repositories: github_id -> row (or absent)
    commits,        \* table commits: sha -> row (or absent)
    contributors,   \* table contributors: <<repository, email>> -> row
    alerts,         \* table alerts: rows in insertion order
    push_events,    \* table push_events: rows in insertion order
    log,            \* fields logged or printed while serving the request
    req,            \* the request being served by Handler.ServeHTTP
    delivered,      \* number of requests received so far
    faults,         \* number of store statements that have failed so far
    sig,           \* one call of ValidateSignature: its arguments and result
    bd,             \* one call of Detector.AnalyzeBackdate: arguments, result
    cc,             \* one commit message given to both conventional parsers
    dist,           \* one call of AnalyzeDistribution: arguments, result
    vol,            \* one call of AnalyzeVolume: arguments, result
    sc,             \* the scorecard request being served, and the last report
    web             \* the push handlers running side by side

vars == <<cfg, now, installations, repositories, commits, contributors,
          alerts, push_events, log, req, delivered, faults, sig, bd, cc, dist, vol,
          sc, web>>

storeVars == <<installations, repositories, commits, contributors, alerts,
               push_events>>

(***************************************************************************)
(* Bounds of the model.                                                    *)
(***************************************************************************)
\* length in bytes of a digest (sha256.Size is 32; the model keeps it short)
DigestLen == 1
\* ticks of the clock to one hour (time.Hour is 3600e9 ns)
Hour == 2
\* number of times the clock advances by one tick
MaxTicks == 1
\* number of webhook requests received in one behaviour
MaxDeliveries == 2
\* number of store statements that fail in one behaviour
MaxFaults == 1

(***************************************************************************)
(* Strings and encoding/hex.                                               *)
(***************************************************************************)
LowerHex == <<"0","1","2","3","4","5","6","7","8","9","a","b","c","d","e","f">>
UpperHex == <<"0","1","2","3","4","5","6","7","8","9","A","B","C","D","E","F">>

\* encoding/hex fromHexChar: the value of a hex digit of either case, -1 if none
FromHexChar(c) ==
    IF \E i \in 1..16 : LowerHex[i] = c
    THEN (CHOOSE i \in 1..16 : LowerHex[i] = c) - 1
    ELSE IF \E i \in 11..16 : UpperHex[i] = c
         THEN (CHOOSE i \in 11..16 : UpperHex[i] = c) - 1
         ELSE -1

\* hex.DecodeString: the bytes, or an error for an odd length or a non-hex digit
HexDecodeString(s) ==
    IF Len(s) % 2 = 1 \/ \E i \in 1..Len(s) : FromHexChar(s[i]) = -1
    THEN [err |-> TRUE, bytes |-> <<>>]
    ELSE [err |-> FALSE,
          bytes |-> [i \in 1..(Len(s) \div 2) |->
                        16 * FromHexChar(s[2*i - 1]) + FromHexChar(s[2*i])]]

\* hex.EncodeToString / fmt %x: lower-case digits
HexEncodeToString(b) ==
    [i \in 1..(2 * Len(b)) |->
        IF i % 2 = 1 THEN LowerHex[(b[(i + 1) \div 2] \div 16) + 1]
                     ELSE LowerHex[(b[i \div 2] % 16) + 1]]

\* strings.HasPrefix(signature, "sha256=") with the prefix as one token
HasPrefix(s) == Len(s) > 0 /\ s[1] = "sha256="
\* strings.TrimPrefix(signature, "sha256=")
TrimPrefix(s) == IF HasPrefix(s) THEN Tail(s) ELSE s

(***************************************************************************)
(* crypto/hmac with sha256, as a keyed function of the payload.  Secrets   *)
(* and payloads are small naturals; the digest is DigestLen bytes whose    *)
(* nibbles are 0 or 10 (digits "0" and "a"/"A").                           *)
(***************************************************************************)
Secrets  == {1, 2}
Payloads == {0, 1}
DigestBytes == <<0, 10, 160, 170>>

HmacSum(secret, payload) ==
    [i \in 1..DigestLen |-> DigestBytes[((2 * secret + payload + i) % 4) + 1]]

\* a comparison over the common positions only
HmacEqualPrefix(a, b) == \A i \in (DOMAIN a) \cap (DOMAIN b) : a[i] = b[i]

\* hmac.Equal: equal length and equal bytes
HmacEqual(a, b) == a = b

(***************************************************************************)
(* webhook.ValidateSignature                                               *)
(***************************************************************************)
ErrMissingSignature  == "missing X-Hub-Signature-256 header"
ErrInvalidSignature  == "invalid signature"
ErrSignatureMismatch == "signature mismatch"
Nil == "nil"

\* the result, and what the call prints to standard output
ValidateSignature(payload, signature, secret) ==
    IF signature = <<>> THEN [err |-> ErrMissingSignature, out |-> {}]
    ELSE IF ~HasPrefix(signature) THEN [err |-> ErrInvalidSignature, out |-> {}]
    ELSE LET decoded == HexDecodeString(TrimPrefix(signature))
             signatureBytes == decoded.bytes
             expected == HmacSum(secret, payload)
         IN  IF decoded.err
             THEN [err |-> ErrInvalidSignature, out |-> {}]
             ELSE IF ~HmacEqual(expected, signatureBytes)
                  THEN [err |-> ErrSignatureMismatch,
                        out |-> {[field |-> "expected",
                                  val |-> HexEncodeToString(expected)],
                                 [field |-> "received",
                                  val |-> HexEncodeToString(signatureBytes)]}]
                  ELSE [err |-> Nil, out |-> {}]

(***************************************************************************)
(* One call of ValidateSignature on arbitrary arguments.                   *)
(***************************************************************************)
SigAlphabet == {"sha256=", "0", "a", "A", "g"}
MaxSigLen == 2 * DigestLen + 2

RECURSIVE Strings(_, _)
\* the strings over alphabet A of length at most n
Strings(A, n) ==
    IF n = 0 THEN {<<>>}
    ELSE LET shorter == Strings(A, n - 1)
         IN  shorter \cup {Append(s, c) : s \in {t \in shorter : Len(t) = n - 1},
                                          c \in A}

SigIdle == [pc |-> "unused", payload |-> 0, signature |-> <<>>, secret |-> 1,
            err |-> Nil]

SigInit ==
    sig \in [pc : {"call"}, payload : Payloads,
             signature : Strings(SigAlphabet, MaxSigLen),
             secret : Secrets, err : {Nil}]

SigValidate ==
    /\ sig.pc = "call"
    /\ sig' = [sig EXCEPT !.pc = "returned",
                 !.err = ValidateSignature(sig.payload, sig.signature,
                                           sig.secret).err]
    /\ UNCHANGED <<cfg, now, installations, repositories, commits,
                   contributors, alerts, push_events, log, req, delivered,
                   faults, bd, cc, dist, vol,
                   sc, web>>

(***************************************************************************)
(* detection.Detector.AnalyzeBackdate                                      *)
(***************************************************************************)
BackdateSuspiciousHours == 24
BackdateCriticalHours == 72

\* Go's integer conversion of a float: truncation toward zero
TruncDiv(a, b) == IF a >= 0 THEN a \div b ELSE -((-a) \div b)

\* int(t.Sub(u).Hours()) for two times given in ticks
HoursBetween(later, earlier) == TruncDiv(later - earlier, Hour)

\* thresholds compared with >= instead of >
AnalyzeBackdateInclusive(authorDate, pushedAt, suspicious, critical) ==
    LET diffHours == HoursBetween(pushedAt, authorDate)
    IN  [AuthorDate |-> authorDate, PushedAt |-> pushedAt,
         DifferenceHours |-> diffHours,
         IsSuspicious |-> diffHours >= suspicious,
         IsCritical |-> diffHours >= critical]

AnalyzeBackdate(authorDate, pushedAt, suspicious, critical) ==
    LET diffHours == HoursBetween(pushedAt, authorDate)
    IN  [AuthorDate |-> authorDate, PushedAt |-> pushedAt,
         DifferenceHours |-> diffHours,
         IsSuspicious |-> diffHours > suspicious,
         IsCritical |-> diffHours > critical]

\* hours covered by the author and receipt times of the detector's calls
MaxLagHours == 101
MaxSkewHours == 3
ThresholdPairs ==
    {<<BackdateSuspiciousHours, BackdateCriticalHours>>,
     <<BackdateCriticalHours, BackdateSuspiciousHours>>,
     <<0, 0>>, <<1, 2>>, <<-2, 1>>}

BdIdle == [pc |-> "unused", authorDate |-> 0, pushedAt |-> 0,
           suspicious |-> BackdateSuspiciousHours,
           critical |-> BackdateCriticalHours,
           result |-> AnalyzeBackdate(0, 0, 0, 0)]

BdInit ==
    \E a \in 0..(MaxSkewHours * Hour), p \in 0..(MaxLagHours * Hour),
       th \in ThresholdPairs :
        bd = [pc |-> "call", authorDate |-> a, pushedAt |-> p,
              suspicious |-> th[1], critical |-> th[2],
              result |-> AnalyzeBackdate(0, 0, 0, 0)]

BdAnalyze ==
    /\ bd.pc = "call"
    /\ bd' = [bd EXCEPT !.pc = "returned",
                !.result = AnalyzeBackdate(bd.authorDate, bd.pushedAt,
                                           bd.suspicious, bd.critical)]
    /\ UNCHANGED <<cfg, now, installations, repositories, commits,
                   contributors, alerts, push_events, log, req, delivered,
                   faults, sig, cc, dist, vol,
                   sc, web>>

(***************************************************************************)
(* The two conventional-commit parsers: webhook.parseConventionalCommit,   *)
(* whose result processCommit stores on the Commit fact, and               *)
(* analysis.ParseConventionalCommit.  A message is a sequence of           *)
(* characters.                                                             *)
(***************************************************************************)
LowerLetters == <<"a","b","c","d","e","f","g","h","i","j","k","l","m",
                  "n","o","p","q","r","s","t","u","v","w","x","y","z">>
UpperLetters == <<"A","B","C","D","E","F","G","H","I","J","K","L","M",
                  "N","O","P","Q","R","S","T","U","V","W","X","Y","Z">>
Digits == {"0","1","2","3","4","5","6","7","8","9"}

validTypes ==
    {<<"f","e","a","t">>, <<"f","i","x">>, <<"d","o","c","s">>,
     <<"s","t","y","l","e">>, <<"r","e","f","a","c","t","o","r">>,
     <<"p","e","r","f">>, <<"t","e","s","t">>, <<"b","u","i","l","d">>,
     <<"c","i">>, <<"c","h","o","r","e">>, <<"r","e","v","e","r","t">>}

\* Go's s[a:b] with 0-based bounds
Slice(s, a, b) == SubSeq(s, a + 1, b)

\* indexOf / strings.Index of one character: the 0-based position, -1 if none
indexOf(s, c) ==
    IF \E i \in 1..Len(s) : s[i] = c
    THEN (CHOOSE i \in 1..Len(s) : s[i] = c /\ \A j \in 1..(i - 1) : s[j] # c) - 1
    ELSE -1

\* parseConventionalCommit's loop: the first ':' of the first line, -1 if none
ColonIdx(message) ==
    IF \E i \in 1..Len(message) :
         message[i] = ":" /\ \A j \in 1..(i - 1) : message[j] \notin {":", "\n"}
    THEN indexOf(message, ":")
    ELSE -1

NotConventional == [IsConventional |-> FALSE, Type |-> <<>>, Scope |-> <<>>]

\* webhook.parseConventionalCommit: (is_conventional, type, scope)
parseConventionalCommit(message) ==
    IF Len(message) = 0 THEN NotConventional
    ELSE LET colonIdx == ColonIdx(message)
             prefix == Slice(message, 0, colonIdx)
             parenStart == indexOf(prefix, "(")
             parenEnd == indexOf(prefix, ")")
             commitType == IF parenStart # -1 THEN Slice(prefix, 0, parenStart)
                           ELSE prefix
             scope == IF parenStart # -1
                      THEN Slice(prefix, parenStart + 1, parenEnd)
                      ELSE <<>>
         IN  IF colonIdx = -1 \/ colonIdx = 0 THEN NotConventional
             ELSE IF parenStart # -1 /\ ~(parenEnd > parenStart)
                  THEN NotConventional
             ELSE IF commitType \notin validTypes THEN NotConventional
             ELSE [IsConventional |-> TRUE, Type |-> commitType,
                   Scope |-> scope]

\* strings.ToLower
ToLower(s) ==
    [i \in 1..Len(s) |->
        IF \E k \in 1..26 : UpperLetters[k] = s[i]
        THEN LowerLetters[CHOOSE k \in 1..26 : UpperLetters[k] = s[i]]
        ELSE s[i]]

\* the regexp classes \w and \s
IsWord(c) ==
    \/ \E k \in 1..26 : LowerLetters[k] = c \/ UpperLetters[k] = c
    \/ c \in Digits \cup {"_"}
IsSpace(c) == c \in {" ", "\t", "\n", "\f", "\r"}

\* strings.Split(message, "\n")[0]
FirstLine(message) ==
    IF indexOf(message, "\n") = -1 THEN message
    ELSE Slice(message, 0, indexOf(message, "\n"))

\* the number of leading characters of s that satisfy the class
RECURSIVE Leading(_, _, _)
Leading(s, isWord, i) ==
    IF i > Len(s) THEN 0
    ELSE IF (isWord /\ IsWord(s[i])) \/ (~isWord /\ IsSpace(s[i]))
         THEN 1 + Leading(s, isWord, i + 1)
         ELSE 0

\* conventionalCommitRegex.FindStringSubmatch on one line:
\* ^(\w+)(?:\(([^)]+)\))?(!)?:\s*(.+)
\* matched is FALSE for a nil result, else m1..m4 are the submatches
FindStringSubmatch(line) ==
    LET n == Len(line)
        w == Leading(line, TRUE, 1)
        afterType == Slice(line, w, n)
        close == indexOf(afterType, ")")
        hasScope == /\ Len(afterType) > 0
                    /\ afterType[1] = "("
                    /\ close >= 2
        afterScope == IF hasScope THEN Slice(afterType, close + 1, Len(afterType))
                      ELSE afterType
        hasBang == Len(afterScope) > 0 /\ afterScope[1] = "!"
        afterBang == IF hasBang THEN Tail(afterScope) ELSE afterScope
        hasColon == Len(afterBang) > 0 /\ afterBang[1] = ":"
        rest == IF hasColon THEN Tail(afterBang) ELSE <<>>
        sp == Leading(rest, FALSE, 1)
        skipped == IF sp = Len(rest) THEN sp - 1 ELSE sp
    IN  IF w >= 1 /\ hasColon /\ Len(rest) >= 1
        THEN [matched |-> TRUE,
              m1 |-> Slice(line, 0, w),
              m2 |-> IF hasScope THEN Slice(afterType, 1, close) ELSE <<>>,
              m3 |-> IF hasBang THEN <<"!">> ELSE <<>>,
              m4 |-> Slice(rest, skipped, Len(rest))]
        ELSE [matched |-> FALSE, m1 |-> <<>>, m2 |-> <<>>, m3 |-> <<>>,
              m4 |-> <<>>]

NotValid == [IsValid |-> FALSE, Type |-> <<>>, Scope |-> <<>>,
             IsBreaking |-> FALSE, Description |-> <<>>]

\* analysis.ParseConventionalCommit
ParseConventionalCommit(message) ==
    IF message = <<>> THEN NotValid
    ELSE LET matches == FindStringSubmatch(FirstLine(message))
             commitType == ToLower(matches.m1)
         IN  IF ~matches.matched THEN NotValid
             ELSE IF commitType \notin validTypes THEN NotValid
             ELSE [IsValid |-> TRUE, Type |-> commitType,
                   Scope |-> matches.m2,
                   IsBreaking |-> matches.m3 = <<"!">>,
                   Description |-> matches.m4]

\* the pieces a commit message is put together from: a type word, a scope
\* group, a breaking mark and the rest from the colon on
TypeWords ==
    validTypes \cup {<<>>, <<"C","I">>, <<"F","e","a","t">>, <<"F","I","X">>,
                     <<"w","i","p">>}
ScopeParts ==
    {<<>>, <<"(","s",")">>, <<"(","s">>, <<"(","s",")","x">>,
     <<"(","a","(","b",")">>, <<"(",")">>}
BangParts == {<<>>, <<"!">>}
RestParts ==
    {<<>>, <<":">>, <<":"," ","d">>, <<":","d">>, <<":"," ">>,
     <<"\n",":"," ","d">>, <<":"," ","d","\n","f","i","x",":"," ","e">>}

Messages ==
    {t \o sp \o b \o r : t \in TypeWords, sp \in ScopeParts, b \in BangParts,
                         r \in RestParts}

CcIdle == [pc |-> "unused", message |-> <<>>,
           stored |-> NotConventional, parsed |-> NotValid]

CcInit ==
    \E m \in Messages :
        cc = [pc |-> "call", message |-> m,
              stored |-> NotConventional, parsed |-> NotValid]

\* the message goes through processCommit's parser and the analysis parser
CcParse ==
    /\ cc.pc = "call"
    /\ cc' = [cc EXCEPT !.pc = "returned",
                !.stored = parseConventionalCommit(cc.message),
                !.parsed = ParseConventionalCommit(cc.message)]
    /\ UNCHANGED <<cfg, now, installations, repositories, commits,
                   contributors, alerts, push_events, log, req, delivered,
                   faults, sig, bd, dist, vol,
                   sc, web>>

(***************************************************************************)
(* The record store (migrations 000001): tables as functions from the      *)
(* unique key to the row; alerts and push_events as rows in insertion      *)
(* order.  Null is SQL NULL.                                               *)
(***************************************************************************)
Repos == {"r1", "r2"}
Emails == {"a@x", "b@x"}
Shas == {"s1", "s2", "s3"}
Installs == {1}
Null == -1

\* the receipt time of the first request: 100 hours after time 0
T0 == 100 * Hour

\* the commits that exist on the platform (github.HeadCommit): a sha fixes the
\* author, the author timestamp and the message
HeadCommit(sha) ==
    CASE sha = "s1" -> [id |-> "s1", email |-> "a@x", login |-> "alice",
                        name |-> "Alice", timestamp |-> 0,
                        message |-> <<"f","e","a","t",":"," ","d">>]
      [] sha = "s2" -> [id |-> "s2", email |-> "a@x", login |-> "",
                        name |-> "",
                        timestamp |-> T0 - BackdateSuspiciousHours * Hour - 1,
                        message |-> <<"w","i","p">>]
      [] sha = "s3" -> [id |-> "s3", email |-> "b@x", login |-> "bob",
                        name |-> "", timestamp |-> T0 + Hour + 1,
                        message |-> <<"f","i","x","(","s",")",":"," ","d">>]

Put(tbl, key, row) == (key :> row) @@ tbl

\* an upsert whose DO UPDATE leaves streak_status alone
UpsertRepositoryOnPushKeepStreak(tbl, repo, installationID, receiveTime) ==
    IF repo \in DOMAIN tbl
    THEN [tbl EXCEPT ![repo].last_push_at = receiveTime,
                     ![repo].last_activity_at = receiveTime]
    ELSE Put(tbl, repo, [installation_id |-> installationID,
                         has_license |-> FALSE,
                         last_push_at |-> receiveTime,
                         last_activity_at |-> receiveTime,
                         streak_status |-> "active"])

\* storePushEvent's first statement: INSERT INTO repositories ... ON CONFLICT
\* (github_id) DO UPDATE SET last_push_at, last_activity_at, streak_status
UpsertRepositoryOnPush(tbl, repo, installationID, receiveTime) ==
    IF repo \in DOMAIN tbl
    THEN [tbl EXCEPT ![repo].last_push_at = receiveTime,
                     ![repo].last_activity_at = receiveTime,
                     ![repo].streak_status = "active"]
    ELSE Put(tbl, repo, [installation_id |-> installationID,
                         has_license |-> FALSE,
                         last_push_at |-> receiveTime,
                         last_activity_at |-> receiveTime,
                         streak_status |-> "active"])

\* storeRepository: INSERT INTO repositories ... ON CONFLICT (github_id) DO
\* UPDATE SET installation_id; the other columns take the schema's defaults
UpsertRepository(tbl, repo, installationID) ==
    IF repo \in DOMAIN tbl
    THEN [tbl EXCEPT ![repo].installation_id = installationID]
    ELSE Put(tbl, repo, [installation_id |-> installationID,
                         has_license |-> FALSE,
                         last_push_at |-> Null,
                         last_activity_at |-> Null,
                         streak_status |-> "active"])

\* the foreign key repositories.installation_id -> installations, checked
\* on the row an upsert inserts or updates
InstallationKnown(tbl, repo, installationID, updatesInstallation) ==
    \/ installationID \in installations
    \/ repo \in DOMAIN tbl /\ ~updatesInstallation

\* processCommit's INSERT INTO commits ... ON CONFLICT (sha) DO NOTHING
InsertCommit(tbl, row) ==
    IF row.sha \in DOMAIN tbl THEN tbl ELSE Put(tbl, row.sha, row)

\* SQL COALESCE(excluded, stored): the first argument that is not NULL.  The
\* arguments updateContributor binds are Go strings, which are sent as text:
\* an empty string is the text '', never NULL (NullText is NULL in a text column)
NullText == "<NULL>"
Coalesce(excluded, stored) == IF excluded # NullText THEN excluded ELSE stored

\* updateContributor: INSERT INTO contributors ... ON CONFLICT (repository_id,
\* email) DO UPDATE SET github_login, name (COALESCE of the incoming and the
\* stored value), total_commits = total_commits + 1, last_commit_at
UpsertContributor(tbl, repo, author, receiveTime) ==
    LET key == <<repo, author.email>>
    IN  IF key \in DOMAIN tbl
        THEN [tbl EXCEPT ![key].github_login = Coalesce(author.login, @),
                         ![key].name = Coalesce(author.name, @),
                         ![key].total_commits = @ + 1,
                         ![key].last_commit_at = receiveTime]
        ELSE Put(tbl, key, [github_login |-> author.login,
                            name |-> author.name,
                            total_commits |-> 1,
                            first_commit_at |-> receiveTime,
                            last_commit_at |-> receiveTime])

\* processCommit: the alert due for a commit, "none" if it is not backdated
BackdateAlert(backdateHours, suspicious, critical) ==
    IF backdateHours > suspicious
    THEN IF backdateHours > critical
         THEN [alert_type |-> "backdate_critical", severity |-> "critical"]
         ELSE [alert_type |-> "backdate_suspicious", severity |-> "warning"]
    ELSE [alert_type |-> "none", severity |-> "none"]

\* a row whose backdate hours are author time minus receipt time
CommitRowReversed(repo, commit, receiveTime, suspicious) ==
    LET backdateHours == HoursBetween(commit.timestamp, receiveTime)
    IN  [repository_id |-> repo, sha |-> commit.id,
         author_email |-> commit.email, author_date |-> commit.timestamp,
         pushed_at |-> receiveTime,
         is_conventional |->
             parseConventionalCommit(commit.message).IsConventional,
         is_backdated |-> backdateHours > suspicious,
         backdate_hours |-> backdateHours]

\* processCommit: the row of table commits built for a commit of a push
CommitRow(repo, commit, receiveTime, suspicious) ==
    LET backdateHours == HoursBetween(receiveTime, commit.timestamp)
    IN  [repository_id |-> repo, sha |-> commit.id,
         author_email |-> commit.email, author_date |-> commit.timestamp,
         pushed_at |-> receiveTime,
         is_conventional |->
             parseConventionalCommit(commit.message).IsConventional,
         is_backdated |-> backdateHours > suspicious,
         backdate_hours |-> backdateHours]

(***************************************************************************)
(* Webhook requests.  An event is the parsed body; parses = FALSE is a     *)
(* body json.Unmarshal rejects.                                            *)
(***************************************************************************)
PushCommits == {<<>>, <<"s2", "s1">>, <<"s1", "s2", "s3">>}

Event(type, parses, action, installation, repo, cs, forced, repos, removed) ==
    [type |-> type, parses |-> parses, action |-> action,
     installation |-> installation, repo |-> repo, commits |-> cs,
     forced |-> forced, repos |-> repos, removed |-> removed]

PushEvents ==
    {Event("push", TRUE, "", i, r, cs, f, <<>>, <<>>) :
        i \in Installs, r \in Repos, cs \in PushCommits, f \in BOOLEAN}
    \cup {Event("push", FALSE, "", 0, "r1", <<>>, FALSE, <<>>, <<>>)}

InstallationEvents ==
    {Event("installation", TRUE, a, i, "r1", <<>>, FALSE, rs, <<>>) :
        a \in {"created", "deleted"}, i \in Installs,
        rs \in {<<>>, <<"r1", "r2">>}}

InstallationRepositoriesEvents ==
    {Event("installation_repositories", TRUE, "", i, "r1", <<>>, FALSE, rs, rm) :
        i \in Installs, rs \in {<<>>, <<"r2">>}, rm \in {<<>>, <<"r1">>}}

OtherEvents ==
    {Event(t, TRUE, "", 0, "r1", <<>>, FALSE, <<>>, <<>>) : t \in {"ping", "issues"}}

Events == PushEvents \cup InstallationEvents \cup InstallationRepositoriesEvents
          \cup OtherEvents

\* the bytes of the body an event is parsed from, as a payload of the digest
RawBody(ev) == IF ev.forced THEN 1 ELSE 0

\* the header GitHub sends for a body signed with a secret
Sign(secret, payload) ==
    <<"sha256=">> \o HexEncodeToString(HmacSum(secret, payload))

Requests ==
    {[method |-> "GET", readable |-> TRUE, signature |-> <<>>,
      event |-> Event("ping", TRUE, "", 0, "r1", <<>>, FALSE, <<>>, <<>>)],
     [method |-> "POST", readable |-> FALSE, signature |-> <<>>,
      event |-> Event("ping", TRUE, "", 0, "r1", <<>>, FALSE, <<>>, <<>>)]}
    \cup UNION {{[method |-> "POST", readable |-> TRUE, signature |-> s,
                   event |-> ev] :
                     s \in {<<>>, <<"a", "a">>}
                            \cup {Sign(k, RawBody(ev)) : k \in Secrets}} :
                 ev \in Events}

(***************************************************************************)
(* webhook.Handler.ServeHTTP up to the routing switch: the response status *)
(* (0 while the request is still being served), the result of the          *)
(* signature check and the fields logged.                                  *)
(***************************************************************************)
LogLine(msg, field, val) == [msg |-> msg, field |-> field, val |-> val]

\* a ServeHTTP that logs a failed verification and serves the request anyway
ServeHTTPLogOnly(config, r) ==
    IF r.method # "POST"
    THEN [status |-> 405, sigErr |-> "unchecked", log |-> {}]
    ELSE IF ~config.gh
    THEN [status |-> 503, sigErr |-> "unchecked", log |-> {}]
    ELSE IF ~r.readable
    THEN [status |-> 400, sigErr |-> "unchecked", log |-> {}]
    ELSE IF config.WebhookSecret = 0
    THEN [status |-> 0, sigErr |-> "unchecked", log |-> {}]
    ELSE [status |-> 0,
          sigErr |-> ValidateSignature(RawBody(r.event), r.signature,
                                       config.WebhookSecret).err,
          log |-> {}]

ServeHTTP(config, r) ==
    IF r.method # "POST"
    THEN [status |-> 405, sigErr |-> "unchecked", log |-> {}]
    ELSE IF ~config.gh
    THEN [status |-> 503, sigErr |-> "unchecked",
          log |-> {LogLine("GitHub App not configured", "", <<>>)}]
    ELSE IF ~r.readable
    THEN [status |-> 400, sigErr |-> "unchecked",
          log |-> {LogLine("failed to read request body", "error", <<>>)}]
    ELSE IF config.WebhookSecret = 0
    THEN [status |-> 0, sigErr |-> "unchecked", log |-> {}]
    ELSE LET v == ValidateSignature(RawBody(r.event), r.signature,
                                    config.WebhookSecret)
         IN  IF v.err # Nil
             THEN [status |-> 401, sigErr |-> v.err,
                   log |-> {LogLine("stdout DEBUG", l.field, l.val) : l \in v.out}
                     \cup {LogLine("signature validation failed", "error", <<>>),
                           LogLine("signature validation failed",
                                   "signature_header", r.signature),
                           LogLine("signature validation failed", "body_len", <<>>),
                           LogLine("signature validation failed", "secret_len", <<>>),
                           LogLine("signature validation failed", "secret_hex",
                                   HexEncodeToString(<<config.WebhookSecret>>))}]
             ELSE [status |-> 0, sigErr |-> Nil, log |-> {}]

Idle == [pc |-> "idle", status |-> 0, sigErr |-> "unchecked",
         event |-> Event("ping", TRUE, "", 0, "r1", <<>>, FALSE, <<>>, <<>>),
         receiveTime |-> 0, idx |-> 1, results |-> <<>>, failed |-> {},
         seen |-> {}, alertBase |-> 0]

\* a routing switch whose default case handles the event as a push
RouteUnknownAsPush(eventType) ==
    CASE eventType = "push" -> "push"
      [] eventType = "installation" -> "installation"
      [] eventType = "installation_repositories" -> "installation_repositories"
      [] eventType = "ping" -> "done"
      [] OTHER -> "push"

\* the routing switch of ServeHTTP: the handler an event type is routed to
Route(eventType) ==
    CASE eventType = "push" -> "push"
      [] eventType = "installation" -> "installation"
      [] eventType = "installation_repositories" -> "installation_repositories"
      [] eventType = "ping" -> "done"
      [] OTHER -> "done"

\* a request arrives and ServeHTTP runs up to the dispatch of the event
Receive ==
    /\ req.pc = "idle"
    /\ delivered < MaxDeliveries
    /\ \E r \in Requests :
        LET o == ServeHTTP(cfg, r)
        IN  /\ log' = o.log
            /\ req' = [Idle EXCEPT
                         !.pc = IF o.status # 0 THEN "done" ELSE Route(r.event.type),
                         !.status = IF o.status # 0 THEN o.status
                                    ELSE IF Route(r.event.type) = "done" THEN 200
                                    ELSE 0,
                         !.sigErr = o.sigErr,
                         !.event = IF o.status = 0 THEN r.event ELSE Idle.event,
                         !.receiveTime = IF o.status = 0 THEN now ELSE 0,
                         !.seen = DOMAIN commits,
                         !.alertBase = Len(alerts)]
    /\ delivered' = delivered + 1
    /\ UNCHANGED <<cfg, now, installations, repositories, commits,
                   contributors, alerts, push_events, faults, sig, bd, cc, dist, vol,
                   sc, web>>

\* ServeHTTP returns and the server waits for the next request
Return ==
    /\ req.pc = "done"
    /\ req' = Idle
    /\ log' = {}
    /\ UNCHANGED <<cfg, now, installations, repositories, commits,
                   contributors, alerts, push_events, delivered, faults, sig, bd, cc, dist, vol,
                   sc, web>>

\* time passes between requests
Tick ==
    /\ req.pc = "idle"
    /\ now < T0 + MaxTicks
    /\ now' = now + 1
    /\ UNCHANGED <<cfg, installations, repositories, commits, contributors,
                   alerts, push_events, log, req, delivered, faults, sig, bd, cc, dist, vol,
                   sc, web>>

(***************************************************************************)
(* handlePush: parse, storePushEvent, then one processCommit per commit,   *)
(* then the force-push check.  A store statement may fail (f, F name the   *)
(* failing statements) while fewer than MaxFaults have failed.             *)
(***************************************************************************)
\* storePushEvent: upsert of the repository, lookup of its id, insert of the
\* push_events row; the statements before a failing one keep their effect
StorePushEvent(repos, pushes, ev, receiveTime, f) ==
    IF f = "upsert" \/ ~InstallationKnown(repos, ev.repo, ev.installation, FALSE)
    THEN [err |-> TRUE, repositories |-> repos, push_events |-> pushes]
    ELSE LET stored == UpsertRepositoryOnPush(repos, ev.repo, ev.installation,
                                              receiveTime)
         IN  IF f \in {"select", "insert"}
             THEN [err |-> TRUE, repositories |-> stored, push_events |-> pushes]
             ELSE [err |-> FALSE, repositories |-> stored,
                   push_events |-> Append(pushes,
                       [repository_id |-> ev.repo, forced |-> ev.forced,
                        commit_count |-> Len(ev.commits),
                        received_at |-> receiveTime])]

HandlePush ==
    /\ req.pc = "push"
    /\ IF ~req.event.parses
       THEN /\ req' = [req EXCEPT !.pc = "done", !.status = 200]
            /\ log' = log \cup {LogLine("failed to parse push event", "error", <<>>)}
            /\ UNCHANGED <<repositories, push_events, faults>>
       ELSE \E f \in {"none", "upsert", "select", "insert"} :
            LET s == StorePushEvent(repositories, push_events, req.event,
                                    req.receiveTime, f)
            IN  /\ f # "none" => faults < MaxFaults
                /\ faults' = IF f = "none" THEN faults ELSE faults + 1
                /\ repositories' = s.repositories
                /\ push_events' = s.push_events
                /\ req' = IF s.err
                          THEN [req EXCEPT !.pc = "done", !.status = 200,
                                           !.failed = {"store"}]
                          ELSE [req EXCEPT !.pc = "commits", !.idx = 1]
                /\ log' = IF s.err
                          THEN log \cup {LogLine("failed to store push event",
                                                 "error", <<>>)}
                          ELSE log
    /\ UNCHANGED <<cfg, now, installations, commits, contributors, alerts,
                   delivered, sig, bd, cc, dist, vol,
                   sc, web>>

\* the statements of processCommit that may fail together: the lookup or the
\* commit insert end the call; the alert insert runs only for a backdated commit
CommitFaults(isBackdated) ==
    {{}, {"lookup"}, {"commit"}}
    \cup {F \in SUBSET {"alert", "contributor"} :
            F # {} /\ ("alert" \in F => isBackdated)}

\* a loop that stops at the first commit whose processing fails
NextCommitAbort(idx, err, n) == IF err THEN n + 1 ELSE idx + 1

\* handlePush's loop over event.Commits: the position handled after idx
NextCommit(idx, err, n) == idx + 1

ProcessCommit ==
    /\ req.pc = "commits"
    /\ req.idx <= Len(req.event.commits)
    /\ LET commit == HeadCommit(req.event.commits[req.idx])
           repo == req.event.repo
           row == CommitRow(repo, commit, req.receiveTime,
                            cfg.BackdateSuspiciousHours)
           alert == BackdateAlert(row.backdate_hours,
                                  cfg.BackdateSuspiciousHours,
                                  cfg.BackdateCriticalHours)
       IN  \E F \in CommitFaults(row.is_backdated) :
            LET err == F \cap {"lookup", "commit"} # {}
            IN  /\ Cardinality(F) <= MaxFaults - faults
                /\ faults' = faults + Cardinality(F)
                /\ commits' = IF err THEN commits ELSE InsertCommit(commits, row)
                /\ alerts' =
                     IF ~err /\ row.is_backdated /\ "alert" \notin F
                     THEN Append(alerts, [repository_id |-> repo,
                                          commit_sha |-> commit.id,
                                          alert_type |-> alert.alert_type,
                                          severity |-> alert.severity])
                     ELSE alerts
                /\ contributors' =
                     IF ~err /\ "contributor" \notin F
                     THEN UpsertContributor(contributors, repo, commit,
                                            req.receiveTime)
                     ELSE contributors
                /\ req' = [req EXCEPT
                             !.idx = NextCommit(req.idx, err,
                                                Len(req.event.commits)),
                             !.results = Append(@, [sha |-> commit.id,
                                                    failed |-> F])]
                /\ log' = IF err
                          THEN log \cup {LogLine("failed to process commit",
                                                 "sha", <<>>)}
                          ELSE log
    /\ UNCHANGED <<cfg, now, installations, repositories, push_events,
                   delivered, sig, bd, cc, dist, vol,
                   sc, web>>

\* a check that ignores the forced flag
ForcePushDueAlways(ev) == TRUE

\* handlePush: whether the force-push alert is due for the event
ForcePushDue(ev) == ev.forced

\* createForcePushAlert: lookup of the repository id, insert of the alert
CreateForcePushAlert(tbl, ev, f) ==
    IF f = "none"
    THEN Append(tbl, [repository_id |-> ev.repo, commit_sha |-> "",
                      alert_type |-> "force_push", severity |-> "warning"])
    ELSE tbl

FinishPush ==
    /\ req.pc = "commits"
    /\ req.idx > Len(req.event.commits)
    /\ IF ForcePushDue(req.event)
       THEN \E f \in {"none", "lookup", "insert"} :
            /\ f # "none" => faults < MaxFaults
            /\ faults' = IF f = "none" THEN faults ELSE faults + 1
            /\ alerts' = CreateForcePushAlert(alerts, req.event, f)
            /\ req' = [req EXCEPT !.pc = "done", !.status = 200,
                          !.failed = IF f = "none" THEN @ ELSE {"force_push"}]
       ELSE /\ req' = [req EXCEPT !.pc = "done", !.status = 200]
            /\ UNCHANGED <<alerts, faults>>
    /\ UNCHANGED <<cfg, now, installations, repositories, commits,
                   contributors, push_events, log, delivered, sig, bd, cc, dist, vol,
                   sc, web>>

(***************************************************************************)
(* handleInstallation and handleInstallationRepositories                   *)
(***************************************************************************)
RECURSIVE StoreRepositories(_, _, _, _, _, _)
\* the loop of storeRepository calls over a list of repositories; the calls
\* at the positions in F fail, as does a call whose installation is unknown
StoreRepositories(tbl, insts, repos, installationID, F, i) ==
    IF i > Len(repos) THEN tbl
    ELSE StoreRepositories(
            IF i \notin F /\ installationID \in insts
            THEN UpsertRepository(tbl, repos[i], installationID)
            ELSE tbl,
            insts, repos, installationID, F, i + 1)

HandleInstallation ==
    /\ req.pc = "installation"
    /\ IF req.event.parses /\ req.event.action = "created"
       THEN \E F \in SUBSET (0..Len(req.event.repos)) :
            LET insts == IF 0 \in F THEN installations
                         ELSE installations \cup {req.event.installation}
            IN  /\ Cardinality(F) <= MaxFaults - faults
                /\ faults' = faults + Cardinality(F)
                /\ installations' = insts
                /\ repositories' = StoreRepositories(repositories, insts,
                                       req.event.repos, req.event.installation,
                                       F, 1)
                /\ req' = [req EXCEPT !.pc = "done", !.status = 200,
                              !.failed = {"store" : x \in F}]
       ELSE /\ req' = [req EXCEPT !.pc = "done", !.status = 200]
            /\ UNCHANGED <<installations, repositories, faults>>
    /\ UNCHANGED <<cfg, now, commits, contributors, alerts, push_events, log,
                   delivered, sig, bd, cc, dist, vol,
                   sc, web>>

HandleInstallationRepositories ==
    /\ req.pc = "installation_repositories"
    /\ IF req.event.parses
       THEN \E F \in SUBSET (1..Len(req.event.repos)) :
            /\ Cardinality(F) <= MaxFaults - faults
            /\ faults' = faults + Cardinality(F)
            /\ repositories' = StoreRepositories(repositories, installations,
                                   req.event.repos, req.event.installation, F, 1)
            /\ req' = [req EXCEPT !.pc = "done", !.status = 200,
                          !.failed = {"store" : x \in F}]
            /\ log' = log \cup {LogLine("repository removed from installation",
                                        "repo", <<>>) :
                                    i \in 1..Len(req.event.removed)}
       ELSE /\ req' = [req EXCEPT !.pc = "done", !.status = 200]
            /\ UNCHANGED <<repositories, faults, log>>
    /\ UNCHANGED <<cfg, now, installations, commits, contributors, alerts,
                   push_events, delivered, sig, bd, cc, dist, vol,
                   sc, web>>

(***************************************************************************)
(* detection.Detector.CheckStreaks                                         *)
(***************************************************************************)
StreakInactivityHours == 72

\* a query without the inactivity window
ListAtRiskAnyAge(tbl, at, inactivityHours) ==
    {r \in DOMAIN tbl :
        /\ tbl[r].last_activity_at # Null
        /\ tbl[r].streak_status = "active"}

\* RepositoryStore.ListAtRisk: the active repositories whose last activity
\* is older than the inactivity window (a NULL last activity never matches)
ListAtRisk(tbl, at, inactivityHours) ==
    {r \in DOMAIN tbl :
        /\ tbl[r].last_activity_at # Null
        /\ tbl[r].last_activity_at < at - inactivityHours * Hour
        /\ tbl[r].streak_status = "active"}

\* the repositories CheckStreaks marks at_risk; U holds those whose
\* UpdateStreakStatus fails and A those whose alert insert fails
CheckStreaks ==
    /\ req.pc = "idle"
    /\ LET atRisk == ListAtRisk(repositories, now, StreakInactivityHours)
       IN  /\ atRisk # {}
           /\ \E U \in SUBSET atRisk, A \in SUBSET atRisk :
               /\ U \cap A = {}
               /\ Cardinality(U) + Cardinality(A) <= MaxFaults - faults
               /\ faults' = faults + Cardinality(U) + Cardinality(A)
               /\ repositories' =
                    [r \in DOMAIN repositories |->
                        IF r \in atRisk \ U
                        THEN [repositories[r] EXCEPT !.streak_status = "at_risk"]
                        ELSE repositories[r]]
               /\ \E order \in [1..Cardinality(atRisk \ (U \cup A)) ->
                                    atRisk \ (U \cup A)] :
                    /\ \A i, j \in DOMAIN order : i # j => order[i] # order[j]
                    /\ \A i, j \in DOMAIN order :
                          i < j => repositories[order[i]].last_activity_at
                                   <= repositories[order[j]].last_activity_at
                    /\ alerts' = alerts \o
                          [i \in DOMAIN order |->
                              [repository_id |-> order[i], commit_sha |-> "",
                               alert_type |-> "streak_at_risk",
                               severity |-> "warning"]]
    /\ UNCHANGED <<cfg, now, installations, commits, contributors,
                   push_events, log, req, delivered, sig, bd, cc, dist, vol,
                   sc, web>>

(***************************************************************************)
(* float64: IEEE 754 binary64 with round-to-nearest, ties to even, as      *)
(* Go's float64 arithmetic of the analysis package computes.  A natural    *)
(* number of any size is a sequence of limbs of LimbBits bits, the least   *)
(* significant first, without a leading zero limb.  The values the         *)
(* analyses compute stay far from the exponent range's ends, so exponents  *)
(* are unbounded integers; the sign of zero is not kept.                   *)
(***************************************************************************)
LimbBits == 15
LimbBase == 2 ^ LimbBits
\* bits of a float64 significand, the implicit one included
SignificandBits == 53

Limb(a, i) == IF i <= Len(a) THEN a[i] ELSE 0
Zeros(k) == [i \in 1..k |-> 0]

RECURSIVE BigNorm(_)
BigNorm(a) ==
    IF a # <<>> /\ a[Len(a)] = 0 THEN BigNorm(SubSeq(a, 1, Len(a) - 1)) ELSE a

RECURSIVE BigOfInt(_)
BigOfInt(n) ==
    IF n = 0 THEN <<>> ELSE <<n % LimbBase>> \o BigOfInt(n \div LimbBase)

RECURSIVE BigToInt(_)
BigToInt(a) == IF a = <<>> THEN 0 ELSE a[1] + LimbBase * BigToInt(Tail(a))

RECURSIVE BigAddFrom(_, _, _, _)
BigAddFrom(a, b, i, carry) ==
    IF i > Len(a) /\ i > Len(b)
    THEN IF carry = 0 THEN <<>> ELSE <<carry>>
    ELSE LET t == Limb(a, i) + Limb(b, i) + carry
         IN  <<t % LimbBase>> \o BigAddFrom(a, b, i + 1, t \div LimbBase)
BigAdd(a, b) == BigAddFrom(a, b, 1, 0)

RECURSIVE BigSubFrom(_, _, _, _)
BigSubFrom(a, b, i, borrow) ==
    IF i > Len(a) THEN <<>>
    ELSE LET t == Limb(a, i) - Limb(b, i) - borrow
         IN  <<(t + LimbBase) % LimbBase>>
               \o BigSubFrom(a, b, i + 1, IF t < 0 THEN 1 ELSE 0)
\* a - b, for a >= b
BigSub(a, b) == BigNorm(BigSubFrom(a, b, 1, 0))

RECURSIVE BigCmpFrom(_, _, _)
BigCmpFrom(a, b, i) ==
    IF i = 0 THEN 0
    ELSE IF a[i] < b[i] THEN -1
    ELSE IF a[i] > b[i] THEN 1
    ELSE BigCmpFrom(a, b, i - 1)
\* -1, 0, 1 as a is less than, equal to, greater than b
BigCmp(a, b) ==
    IF Len(a) < Len(b) THEN -1
    ELSE IF Len(a) > Len(b) THEN 1
    ELSE BigCmpFrom(a, b, Len(a))

RECURSIVE BigMulLimbFrom(_, _, _, _)
BigMulLimbFrom(a, d, i, carry) ==
    IF i > Len(a) THEN IF carry = 0 THEN <<>> ELSE <<carry>>
    ELSE LET t == a[i] * d + carry
         IN  <<t % LimbBase>> \o BigMulLimbFrom(a, d, i + 1, t \div LimbBase)
\* a times one limb d
BigMulLimb(a, d) == IF d = 0 THEN <<>> ELSE BigMulLimbFrom(a, d, 1, 0)

RECURSIVE BigMulFrom(_, _, _)
BigMulFrom(a, b, i) ==
    IF i > Len(b) THEN <<>>
    ELSE BigAdd(IF b[i] = 0 THEN <<>>
                ELSE Zeros(i - 1) \o BigMulLimb(a, b[i]),
                BigMulFrom(a, b, i + 1))
BigMul(a, b) == IF a = <<>> THEN <<>> ELSE BigMulFrom(a, b, 1)

RECURSIVE BigDivLimbFrom(_, _, _, _)
BigDivLimbFrom(a, d, i, rem) ==
    IF i = 0 THEN <<>>
    ELSE LET t == rem * LimbBase + a[i]
         IN  BigDivLimbFrom(a, d, i - 1, t % d) \o <<t \div d>>

\* a * 2^k and floor(a / 2^k)
BigShl(a, k) ==
    IF a = <<>> THEN <<>>
    ELSE Zeros(k \div LimbBits) \o BigMulLimb(a, 2 ^ (k % LimbBits))
BigShr(a, k) ==
    LET kept == SubSeq(a, (k \div LimbBits) + 1, Len(a))
    IN  BigNorm(BigDivLimbFrom(kept, 2 ^ (k % LimbBits), Len(kept), 0))

\* bit i of a, bit 0 the least significant
BigBit(a, i) ==
    (Limb(a, (i \div LimbBits) + 1) \div (2 ^ (i % LimbBits))) % 2
\* the number of bits of a
BigBitLen(a) ==
    IF a = <<>> THEN 0
    ELSE LimbBits * (Len(a) - 1)
           + (CHOOSE k \in 1..LimbBits :
                2 ^ (k - 1) <= a[Len(a)] /\ a[Len(a)] < 2 ^ k)

\* the limb d with d*b <= r < (d+1)*b, for r < b*LimbBase and b with the top
\* bit of its top limb set: the estimate from the leading limbs is at most
\* two too large
BigDivDigit(r, b) ==
    LET n == Len(b)
        est == (Limb(r, n + 1) * LimbBase + Limb(r, n)) \div b[n]
        d == IF est > LimbBase - 1 THEN LimbBase - 1 ELSE est
    IN  IF BigCmp(BigMulLimb(b, d), r) <= 0 THEN d
        ELSE IF BigCmp(BigMulLimb(b, d - 1), r) <= 0 THEN d - 1
        ELSE d - 2

RECURSIVE BigDivModFrom(_, _, _)
\* quotient and remainder by b of the limbs i and up of a
BigDivModFrom(a, b, i) ==
    IF i > Len(a) THEN [q |-> <<>>, r |-> <<>>]
    ELSE LET prev == BigDivModFrom(a, b, i + 1)
             r2 == <<a[i]>> \o prev.r
             d == BigDivDigit(r2, b)
         IN  IF prev.r = <<>> /\ a[i] = 0
             THEN [q |-> BigNorm(<<0>> \o prev.q), r |-> <<>>]
             ELSE [q |-> BigNorm(<<d>> \o prev.q),
                   r |-> BigSub(r2, BigMulLimb(b, d))]
\* quotient and remainder of a by b, for b > 0
BigDivMod(a, b) ==
    LET sh == LimbBits * Len(b) - BigBitLen(b)
        d == BigDivModFrom(BigShl(a, sh), BigShl(b, sh), 1)
    IN  [q |-> d.q, r |-> BigShr(d.r, sh)]

\* a float64 is NaN, an infinity of sign s, or (-1)^s * m * 2^e with m zero
\* or of exactly SignificandBits bits
NaN == [k |-> "nan", s |-> 0, m |-> <<>>, e |-> 0]
Inf(s) == [k |-> "inf", s |-> s, m |-> <<>>, e |-> 0]
Zero == [k |-> "fin", s |-> 0, m |-> <<>>, e |-> 0]

IsNaN(x) == x.k = "nan"
IsZero(x) == x.k = "fin" /\ x.m = <<>>

\* the float64 nearest to (-1)^s * m * 2^e, ties to even; sticky tells that
\* the exact value is a little more than m * 2^e (m then has spare bits)
Round(s, m, e, sticky) ==
    IF m = <<>> THEN Zero
    ELSE LET len == BigBitLen(m)
             sh == len - SignificandBits
             q == BigShr(m, sh)
             rest == BigSub(m, BigShl(q, sh))
             c == BigCmp(rest, BigShl(<<1>>, sh - 1))
             up == c > 0 \/ (c = 0 /\ (sticky \/ BigBit(q, 0) = 1))
             q2 == IF up THEN BigAdd(q, <<1>>) ELSE q
         IN  IF sh <= 0
             THEN [k |-> "fin", s |-> s, m |-> BigShl(m, -sh), e |-> e + sh]
             ELSE IF BigBitLen(q2) > SignificandBits
                  THEN [k |-> "fin", s |-> s, m |-> BigShr(q2, 1),
                        e |-> e + sh + 1]
                  ELSE [k |-> "fin", s |-> s, m |-> q2, e |-> e + sh]

\* the exact sum and product of two finite values, m of any size
ExactAdd(x, y) ==
    IF x.m = <<>> THEN [s |-> y.s, m |-> y.m, e |-> y.e]
    ELSE IF y.m = <<>> THEN [s |-> x.s, m |-> x.m, e |-> x.e]
    ELSE LET e == IF x.e < y.e THEN x.e ELSE y.e
             xm == BigShl(x.m, x.e - e)
             ym == BigShl(y.m, y.e - e)
             c == BigCmp(xm, ym)
         IN  IF x.s = y.s THEN [s |-> x.s, m |-> BigAdd(xm, ym), e |-> e]
             ELSE IF c = 0 THEN [s |-> 0, m |-> <<>>, e |-> 0]
             ELSE IF c > 0 THEN [s |-> x.s, m |-> BigSub(xm, ym), e |-> e]
             ELSE [s |-> y.s, m |-> BigSub(ym, xm), e |-> e]
ExactMul(x, y) ==
    [s |-> (x.s + y.s) % 2, m |-> BigMul(x.m, y.m), e |-> x.e + y.e]
RoundExact(v) == Round(v.s, v.m, v.e, FALSE)

\* float64(n) of an int
FromInt(n) ==
    IF n < 0 THEN Round(1, BigOfInt(-n), 0, FALSE)
    ELSE Round(0, BigOfInt(n), 0, FALSE)

FNeg(x) == IF x.k = "nan" \/ IsZero(x) THEN x ELSE [x EXCEPT !.s = 1 - @]

\* x + y
FAdd(x, y) ==
    IF IsNaN(x) \/ IsNaN(y) THEN NaN
    ELSE IF x.k = "inf" /\ y.k = "inf" THEN IF x.s = y.s THEN x ELSE NaN
    ELSE IF x.k = "inf" THEN x
    ELSE IF y.k = "inf" THEN y
    ELSE RoundExact(ExactAdd(x, y))
\* x - y
FSub(x, y) == FAdd(x, FNeg(y))
\* x * y
FMul(x, y) ==
    IF IsNaN(x) \/ IsNaN(y) THEN NaN
    ELSE IF x.k = "inf" \/ y.k = "inf"
         THEN IF IsZero(x) \/ IsZero(y) THEN NaN ELSE Inf((x.s + y.s) % 2)
    ELSE RoundExact(ExactMul(x, y))
\* x*y + z rounded once: the fused multiply-add a build may use for x*y + z
FMA(x, y, z) ==
    IF x.k # "fin" \/ y.k # "fin" \/ z.k # "fin" THEN FAdd(FMul(x, y), z)
    ELSE RoundExact(ExactAdd(ExactMul(x, y), z))
\* x / y
FDiv(x, y) ==
    IF IsNaN(x) \/ IsNaN(y) THEN NaN
    ELSE IF x.k = "inf" THEN IF y.k = "inf" THEN NaN ELSE Inf((x.s + y.s) % 2)
    ELSE IF y.k = "inf" THEN Zero
    ELSE IF IsZero(y) THEN IF IsZero(x) THEN NaN ELSE Inf((x.s + y.s) % 2)
    ELSE IF IsZero(x) THEN Zero
    ELSE LET d == BigDivMod(BigShl(x.m, SignificandBits + 2), y.m)
         IN  Round((x.s + y.s) % 2, d.q, x.e - y.e - SignificandBits - 2,
                   d.r # <<>>)

\* x < y, false when either is NaN
FLess(x, y) ==
    IF IsNaN(x) \/ IsNaN(y) THEN FALSE
    ELSE IF x.k = "inf" \/ y.k = "inf"
         THEN x # y /\ ((x.k = "inf" /\ x.s = 1) \/ (y.k = "inf" /\ y.s = 0))
    ELSE LET d == ExactAdd(x, FNeg(y)) IN d.m # <<>> /\ d.s = 1
FGreater(x, y) == FLess(y, x)
FGeq(x, y) == ~IsNaN(x) /\ ~IsNaN(y) /\ ~FLess(x, y)

\* int(x) of a finite x: the value truncated toward zero
FToInt(x) ==
    LET n == BigToInt(IF x.e >= 0 THEN BigShl(x.m, x.e) ELSE BigShr(x.m, -x.e))
    IN  IF x.s = 1 THEN -n ELSE n

(***************************************************************************)
(* analysis.AnalyzeDistribution.  A contributor is its commit count, its   *)
(* login its place in the argument; additions and deletions, which only    *)
(* feed the code shares, are left out.  fused tells whether the build      *)
(* fuses x*y + z into one rounding, as Go allows.                          *)
(***************************************************************************)
\* contributors of a call, and commits of one contributor
MaxContributors == 3
MaxCommits == 4
\* contributors of a call where all have the same count
MaxEqualContributors == 9

RECURSIVE SumSeq(_)
SumSeq(ns) == IF ns = <<>> THEN 0 ELSE ns[1] + SumSeq(Tail(ns))

\* the largest of a non-empty list of numbers
MaxOfSeq(ns) ==
    CHOOSE m \in {ns[i] : i \in 1..Len(ns)} :
        \A i \in 1..Len(ns) : ns[i] <= m

RECURSIVE SortedInsert(_, _)
SortedInsert(sorted, v) ==
    IF sorted = <<>> THEN <<v>>
    ELSE IF FLess(v, sorted[1]) THEN <<v>> \o sorted
    ELSE <<sorted[1]>> \o SortedInsert(Tail(sorted), v)
RECURSIVE SortFloat64s(_)
\* sort.Float64s: the values in increasing order
SortFloat64s(values) ==
    IF values = <<>> THEN <<>>
    ELSE SortedInsert(SortFloat64s(Tail(values)), values[1])

RECURSIVE GiniSums(_, _, _)
\* calculateGini's loop over the first i sorted values
GiniSums(sorted, i, fused) ==
    IF i = 0 THEN [cumSum |-> Zero, sum |-> Zero]
    ELSE LET prev == GiniSums(sorted, i - 1, fused)
         IN  [cumSum |-> FAdd(prev.cumSum, sorted[i]),
              sum |-> IF fused THEN FMA(FromInt(i), sorted[i], prev.sum)
                      ELSE FAdd(prev.sum, FMul(FromInt(i), sorted[i]))]

\* the coefficient of n values with the sums of the loop
GiniOfSums(n, sums) ==
    IF IsZero(sums.cumSum) THEN Zero
    ELSE FSub(FDiv(FMul(FromInt(2), sums.sum),
                   FMul(FromInt(n), sums.cumSum)),
              FDiv(FAdd(FromInt(n), FromInt(1)), FromInt(n)))

calculateGini(values, fused) ==
    IF Len(values) = 0 THEN Zero
    ELSE GiniOfSums(Len(values),
                    GiniSums(SortFloat64s(values), Len(values), fused))

\* a nil *ContributorShare
NilShare == [Login |-> 0, Commits |-> 0, CommitShare |-> Zero]

\* determinePattern with the lone-wolf rule at 80% and above
DistributionPatternInclusive(a) ==
    IF a.TotalContributors = 0 THEN "no_activity"
    ELSE IF a.TotalContributors = 1 THEN "solo"
    ELSE IF a.TopContributor # NilShare
            /\ FGeq(a.TopContributor.CommitShare, FromInt(80))
         THEN "lone_wolf"
    ELSE IF FLess(a.GiniCoefficient, FDiv(FromInt(3), FromInt(10)))
         THEN "balanced"
    ELSE IF FLess(a.GiniCoefficient, FDiv(FromInt(1), FromInt(2)))
         THEN "moderate_imbalance"
    ELSE "imbalanced"

\* DistributionAnalysis.determinePattern
DistributionPattern(a) ==
    IF a.TotalContributors = 0 THEN "no_activity"
    ELSE IF a.TotalContributors = 1 THEN "solo"
    ELSE IF a.TopContributor # NilShare
            /\ FGreater(a.TopContributor.CommitShare, FromInt(80))
         THEN "lone_wolf"
    ELSE IF FLess(a.GiniCoefficient, FDiv(FromInt(3), FromInt(10)))
         THEN "balanced"
    ELSE IF FLess(a.GiniCoefficient, FDiv(FromInt(1), FromInt(2)))
         THEN "moderate_imbalance"
    ELSE "imbalanced"

\* the contributors that sort.Slice, which keeps no order among equal
\* commit counts, can put first
Tops(contributorData) ==
    {i \in 1..Len(contributorData) :
        \A j \in 1..Len(contributorData) :
            contributorData[j] <= contributorData[i]}

\* the analysis of no contributors
NoDistribution ==
    [TotalContributors |-> 0, TotalCommits |-> 0, GiniCoefficient |-> Zero,
     TopContributor |-> NilShare, Contributors |-> {},
     Pattern |-> "no_activity"]

\* float64(c.Commits) / float64(totalCommits) * 100, or 0 without commits
CommitShare(commitCount, totalCommits) ==
    IF totalCommits > 0
    THEN FMul(FDiv(FromInt(commitCount), FromInt(totalCommits)), FromInt(100))
    ELSE Zero

\* the analysis before determinePattern, with the contributor the sort put
\* first; the order of the other shares is not kept
DistributionShares(contributorData, totalCommits, commitShares, top, fused) ==
    [TotalContributors |-> Len(contributorData),
     TotalCommits |-> totalCommits,
     GiniCoefficient |-> calculateGini(commitShares, fused),
     TopContributor |-> [Login |-> top, Commits |-> contributorData[top],
                         CommitShare |-> commitShares[top]],
     Contributors |-> {[Login |-> i, Commits |-> contributorData[i],
                        CommitShare |-> commitShares[i]] :
                          i \in 1..Len(contributorData)},
     Pattern |-> ""]

\* analysis.determinePattern() on an analysis
WithDistributionPattern(analysis) ==
    [analysis EXCEPT !.Pattern = DistributionPattern(analysis)]

\* AnalyzeDistribution, with the contributor the sort put first
AnalyzeDistribution(contributorData, top, fused) ==
    IF Len(contributorData) = 0 THEN NoDistribution
    ELSE WithDistributionPattern(
             DistributionShares(
                 contributorData, SumSeq(contributorData),
                 [i \in 1..Len(contributorData) |->
                     CommitShare(contributorData[i], SumSeq(contributorData))],
                 top, fused))

RECURSIVE Lists(_, _)
\* the lists of at most n numbers of 0..k
Lists(n, k) ==
    IF n = 0 THEN {<<>>}
    ELSE LET shorter == Lists(n - 1, k)
         IN  shorter \cup {Append(l, c) : l \in {t \in shorter : Len(t) = n - 1},
                                          c \in 0..k}

DistInputs ==
    Lists(MaxContributors, MaxCommits)
      \cup {[i \in 1..n |-> 1] : n \in 1..MaxEqualContributors}

DistIdle == [pc |-> "unused", contributors |-> <<>>, fused |-> FALSE,
             result |-> NoDistribution]

DistInit ==
    \E cs \in DistInputs, f \in BOOLEAN :
        dist = [pc |-> "call", contributors |-> cs, fused |-> f,
                result |-> NoDistribution]

DistAnalyze ==
    /\ dist.pc = "call"
    /\ \E top \in IF dist.contributors = <<>> THEN {0}
                  ELSE Tops(dist.contributors) :
         dist' = [dist EXCEPT !.pc = "returned",
                    !.result = AnalyzeDistribution(dist.contributors, top,
                                                   dist.fused)]
    /\ UNCHANGED <<cfg, now, installations, repositories, commits,
                   contributors, alerts, push_events, log, req, delivered,
                   faults, sig, bd, cc, vol,
                   sc, web>>

(***************************************************************************)
(* analysis.AnalyzeVolume.  A daily bucket is its date, in ticks, and its  *)
(* commit count; additions and deletions, which the patterns do not use,   *)
(* are left out.                                                           *)
(***************************************************************************)
\* buckets of a call
MaxBuckets == 2
Day == 24 * Hour
\* the zero time.Time
ZeroTime == -1

\* Duration.Hours of a duration in ticks
DurationHours(d) ==
    LET hour == TruncDiv(d, Hour)
    IN  FAdd(FromInt(hour), FDiv(FromInt(d - hour * Hour), FromInt(Hour)))

\* int(later.Sub(earlier).Hours()/24) + 1
DaysInPeriod(later, earlier) ==
    FToInt(FDiv(DurationHours(later - earlier), FromInt(24))) + 1

\* Date.Format("2006-01-02"): the day of a time
FormatDate(t) == t \div Day

\* the orders sort.Slice, which keeps no order among equal dates, can give
SortOrders(activities) ==
    {p \in Permutations(1..Len(activities)) :
        \A i \in 1..(Len(activities) - 1) :
            activities[p[i]].Date <= activities[p[i + 1]].Date}

RECURSIVE CommitSum(_, _)
\* the sum of the commits of the first i buckets, as calculateConsistencyScore
\* adds them
CommitSum(activities, i) ==
    IF i = 0 THEN Zero
    ELSE FAdd(CommitSum(activities, i - 1), FromInt(activities[i].Commits))

\* variance += diff * diff
SquareAdd(variance, diff, fused) ==
    IF fused THEN FMA(diff, diff, variance)
    ELSE FAdd(variance, FMul(diff, diff))

RECURSIVE VarianceSum(_, _, _, _)
\* the sum of the squared differences to the mean of the first i buckets
VarianceSum(activities, mean, i, fused) ==
    IF i = 0 THEN Zero
    ELSE SquareAdd(VarianceSum(activities, mean, i - 1, fused),
                   FSub(FromInt(activities[i].Commits), mean), fused)

\* float64(activeDays) / float64(totalDays) * 100
ActivityRate(activities, totalDays) ==
    FMul(FDiv(FromInt(Cardinality({i \in 1..Len(activities) :
                                      activities[i].Commits > 0})),
              FromInt(totalDays)),
         FromInt(100))

\* 100 / (1 + variance/mean) for the mean of the buckets
VarianceScore(activities, mean, fused) ==
    FDiv(FromInt(100),
         FAdd(FromInt(1),
              FDiv(FDiv(VarianceSum(activities, mean, Len(activities), fused),
                        FromInt(Len(activities))),
                   mean)))

calculateConsistencyScore(activities, totalDays, fused) ==
    IF totalDays = 0 \/ Len(activities) = 0 THEN Zero
    ELSE FDiv(FAdd(ActivityRate(activities, totalDays),
                   VarianceScore(activities,
                                 FDiv(CommitSum(activities, Len(activities)),
                                      FromInt(Len(activities))),
                                 fused)),
              FromInt(2))

RECURSIVE BreakdownCommits(_, _)
\* the commits of the entries from startIdx on (0-based) of the breakdown
BreakdownCommits(breakdown, startIdx) ==
    IF startIdx >= Len(breakdown) THEN 0
    ELSE breakdown[startIdx + 1].Commits
           + BreakdownCommits(breakdown, startIdx + 1)

\* lastDays: a fifth of the days, in whole days, and at least one
LastDays(computed) == IF computed < 1 THEN 1 ELSE computed

\* startIdx: the index the last period starts at in a breakdown of len days
StartIdx(len, lastDays) == IF len - lastDays < 0 THEN 0 ELSE len - lastDays

\* lastPeriodPctActual: the share of the commits of the last period
LastPeriodPctActual(a) ==
    FMul(FDiv(FromInt(BreakdownCommits(
                  a.DailyBreakdown,
                  StartIdx(Len(a.DailyBreakdown),
                           LastDays(FToInt(FDiv(FMul(FromInt(a.TotalDays),
                                                     FromInt(20)),
                                                FromInt(100))))))),
              FromInt(a.TotalCommits)),
         FromInt(100))

\* VolumeAnalysis.determinePattern
VolumePattern(a) ==
    IF a.TotalCommits = 0 THEN "no_activity"
    ELSE IF a.TotalDays > 0 /\ FGreater(LastPeriodPctActual(a), FromInt(50))
         THEN "deadline_dumper"
    ELSE IF FGeq(a.ConsistencyScore, FromInt(70)) THEN "daily_builder"
    ELSE IF FGeq(a.ConsistencyScore, FromInt(40)) THEN "moderate_builder"
    ELSE IF FGreater(FromInt(a.MaxDailyCommits),
                     FMul(a.AveragePerDay, FromInt(3)))
         THEN "burst_coder"
    ELSE "sporadic"

\* the analysis of no activities
NoVolume ==
    [TotalDays |-> 0, ActiveDays |-> 0, TotalCommits |-> 0,
     MaxDailyCommits |-> 0, AveragePerDay |-> Zero,
     LastDayPercentage |-> Zero, ConsistencyScore |-> Zero,
     DailyBreakdown |-> <<>>, Pattern |-> "no_activity"]

\* the commit counts of the buckets
CommitsOf(activities) ==
    [i \in 1..Len(activities) |-> activities[i].Commits]

\* TotalDays: the days of the window, or of the activities without a window
TotalDays(activities, hackathonStart, hackathonEnd) ==
    IF hackathonStart # ZeroTime /\ hackathonEnd # ZeroTime
    THEN DaysInPeriod(hackathonEnd, hackathonStart)
    ELSE DaysInPeriod(activities[Len(activities)].Date, activities[1].Date)

\* the analysis before determinePattern
VolumeFigures(activities, totalCommits, totalDays, fused) ==
    [TotalDays |-> totalDays,
     ActiveDays |-> Cardinality({i \in 1..Len(activities) :
                                    activities[i].Commits > 0}),
     TotalCommits |-> totalCommits,
     MaxDailyCommits |-> MaxOfSeq(<<0>> \o CommitsOf(activities)),
     AveragePerDay |-> IF totalDays > 0
                       THEN FDiv(FromInt(totalCommits), FromInt(totalDays))
                       ELSE Zero,
     LastDayPercentage |->
         CommitShare(activities[Len(activities)].Commits, totalCommits),
     ConsistencyScore |->
         calculateConsistencyScore(activities, totalDays, fused),
     DailyBreakdown |->
         [i \in 1..Len(activities) |->
             [Date |-> FormatDate(activities[i].Date),
              Commits |-> activities[i].Commits,
              Pct |-> CommitShare(activities[i].Commits, totalCommits)]],
     Pattern |-> ""]

\* analysis.determinePattern() on an analysis
WithVolumePattern(analysis) ==
    [analysis EXCEPT !.Pattern = VolumePattern(analysis)]

\* AnalyzeVolume, on the activities in the order the sort left them in
AnalyzeVolume(activities, hackathonStart, hackathonEnd, fused) ==
    IF Len(activities) = 0 THEN NoVolume
    ELSE WithVolumePattern(
             VolumeFigures(activities, SumSeq(CommitsOf(activities)),
                           TotalDays(activities, hackathonStart, hackathonEnd),
                           fused))

\* the days and the commit counts of the buckets of a call
BucketDays == {0, 1, 9}
BucketCommits == {0, 5, 45}
DailyActivities ==
    [Date : {d * Day : d \in BucketDays}, Commits : BucketCommits]

RECURSIVE ActivityLists(_)
\* the lists of at most n buckets
ActivityLists(n) ==
    IF n = 0 THEN {<<>>}
    ELSE LET shorter == ActivityLists(n - 1)
         IN  shorter \cup {Append(l, a) : l \in {t \in shorter : Len(t) = n - 1},
                                          a \in DailyActivities}

\* no window, ten days, one day, a day and a half, a window that ends nine
\* days and one that ends one day before it starts
Windows ==
    {<<ZeroTime, ZeroTime>>, <<0, 9 * Day>>, <<0, 0>>, <<0, Day + 12 * Hour>>,
     <<9 * Day, 0>>, <<Day, 0>>}

VolIdle == [pc |-> "unused", activities |-> <<>>, hackathonStart |-> ZeroTime,
            hackathonEnd |-> ZeroTime, fused |-> FALSE,
            result |-> NoVolume]

VolInit ==
    \E as \in ActivityLists(MaxBuckets), w \in Windows, f \in BOOLEAN :
        vol = [pc |-> "call", activities |-> as, hackathonStart |-> w[1],
               hackathonEnd |-> w[2], fused |-> f,
               result |-> NoVolume]

VolAnalyze ==
    /\ vol.pc = "call"
    /\ \E p \in SortOrders(vol.activities) :
         vol' = [vol EXCEPT !.pc = "returned",
                   !.activities = [i \in 1..Len(vol.activities) |->
                                      vol.activities[p[i]]],
                   !.result = AnalyzeVolume(
                       [i \in 1..Len(vol.activities) |-> vol.activities[p[i]]],
                       vol.hackathonStart, vol.hackathonEnd, vol.fused)]
    /\ UNCHANGED <<cfg, now, installations, repositories, commits,
                   contributors, alerts, push_events, log, req, delivered,
                   faults, sig, bd, cc, dist,
                   sc, web>>


(***************************************************************************)
(* scorecard.Handler: the three queries of buildScorecard and the report   *)
(* built from their results.  A description is the number and the words it *)
(* is printed with.                                                        *)
(***************************************************************************)
AlertTypes ==
    {"backdate_suspicious", "backdate_critical", "force_push", "no_license",
     "streak_at_risk", "non_conventional_commit"}
Severities == {"info", "warning", "critical"}

\* CommitStore.GetStats: the counts over the commits of a repository.  With
\* no commit row SUM(additions) is NULL, which Scan cannot store in an int64:
\* the call returns an error
GetStats(tbl, repoID) ==
    [err |-> \A sha \in DOMAIN tbl : tbl[sha].repository_id # repoID,
     TotalCommits |->
         Cardinality({sha \in DOMAIN tbl : tbl[sha].repository_id = repoID}),
     BackdatedCount |->
         Cardinality({sha \in DOMAIN tbl : /\ tbl[sha].repository_id = repoID
                                           /\ tbl[sha].is_backdated}),
     ConventionalCount |->
         Cardinality({sha \in DOMAIN tbl : /\ tbl[sha].repository_id = repoID
                                           /\ tbl[sha].is_conventional})]

\* AlertStore.CountByRepository: the alerts of a repository by type and by
\* severity; a type or severity without alerts reads as 0, as a missing key
\* of the Go maps does
CountByRepository(tbl, repoID) ==
    [typeCounts |->
        [t \in AlertTypes |->
            Cardinality({i \in 1..Len(tbl) : /\ tbl[i].repository_id = repoID
                                             /\ tbl[i].alert_type = t})],
     severityCounts |->
        [v \in Severities |->
            Cardinality({i \in 1..Len(tbl) : /\ tbl[i].repository_id = repoID
                                             /\ tbl[i].severity = v})]]

\* ContributorStore.ListByRepository: the orders ORDER BY total_commits DESC
\* can return the contributors of a repository in, as lists of their emails
ListByRepository(tbl, repoID) ==
    {list \in [1..Cardinality({k \in DOMAIN tbl : k[1] = repoID}) ->
                  {k[2] : k \in {q \in DOMAIN tbl : q[1] = repoID}}] :
        /\ \A i, j \in DOMAIN list : i # j => list[i] # list[j]
        /\ \A i, j \in DOMAIN list :
              i < j => tbl[<<repoID, list[i]>>].total_commits
                        >= tbl[<<repoID, list[j]>>].total_commits}

\* pluralize
pluralize(n, singular, plural) ==
    IF n = 1 THEN <<1, singular>> ELSE <<n, plural>>

\* a clamp that returns its second argument
maxSecond(a, b) == b

max(a, b) == IF a > b THEN a ELSE b

\* buildChecks: the license check
LicenseCheck(repo) ==
    [Name |-> "License Present",
     Status |-> IF repo.has_license THEN "pass" ELSE "fail",
     Score |-> IF repo.has_license THEN 100 ELSE 0,
     Description |-> IF repo.has_license
                     THEN <<0, "Repository has a license file">>
                     ELSE <<0, "No license file found">>]

\* buildChecks: the backdate check of backdateCount alerts
BackdateCheck(backdateCount) ==
    [Name |-> "No Backdated Commits",
     Status |-> IF backdateCount > 0
                THEN IF max(0, 100 - backdateCount * 20) < 50
                     THEN "fail" ELSE "warn"
                ELSE "pass",
     Score |-> IF backdateCount > 0 THEN max(0, 100 - backdateCount * 20)
               ELSE 100,
     Description |-> IF backdateCount > 0
                     THEN pluralize(backdateCount, "commit", "commits")
                     ELSE <<0, "No backdated commits detected">>]

\* buildChecks: the force-push check of forcePushCount alerts
ForcePushCheck(forcePushCount) ==
    [Name |-> "No Force Pushes",
     Status |-> IF forcePushCount > 0
                THEN IF max(0, 100 - forcePushCount * 25) < 50
                     THEN "fail" ELSE "warn"
                ELSE "pass",
     Score |-> IF forcePushCount > 0 THEN max(0, 100 - forcePushCount * 25)
               ELSE 100,
     Description |-> IF forcePushCount > 0
                     THEN pluralize(forcePushCount, "force push",
                                    "force pushes")
                     ELSE <<0, "No force pushes detected">>]

\* buildChecks: the streak check
StreakCheck(repo) ==
    [Name |-> "Activity Streak",
     Status |-> IF repo.streak_status = "at_risk" THEN "warn"
                ELSE IF repo.streak_status = "inactive" THEN "fail"
                ELSE "pass",
     Score |-> IF repo.streak_status = "at_risk" THEN 50
               ELSE IF repo.streak_status = "inactive" THEN 0
               ELSE 100,
     Description |-> IF repo.streak_status = "at_risk"
                     THEN <<0, "Repository activity streak is at risk">>
                     ELSE IF repo.streak_status = "inactive"
                     THEN <<0, "Repository has been inactive">>
                     ELSE <<0, "Repository has consistent activity">>]

\* buildChecks: the conventional-commits check of a percentage
ConventionalCheckOf(conventionalPct) ==
    [Name |-> "Conventional Commits",
     Status |-> IF FGeq(conventionalPct, FromInt(80)) THEN "pass"
                ELSE IF FGeq(conventionalPct, FromInt(50)) THEN "warn"
                ELSE "fail",
     Score |-> FToInt(conventionalPct),
     Description |-> pluralize(FToInt(conventionalPct), "% of commits follow",
                               "% of commits follow")]

\* buildChecks: the conventional-commits check
ConventionalCheck(commitStats) ==
    IF commitStats.TotalCommits > 0
    THEN ConventionalCheckOf(
             FMul(FDiv(FromInt(commitStats.ConventionalCount),
                       FromInt(commitStats.TotalCommits)),
                  FromInt(100)))
    ELSE [Name |-> "Conventional Commits", Status |-> "warn", Score |-> 0,
          Description |-> <<0, "No conventional commits found">>]

buildChecks(repo, commitStats, alertCounts) ==
    <<LicenseCheck(repo),
      BackdateCheck(alertCounts["backdate_suspicious"]
                      + alertCounts["backdate_critical"]),
      ForcePushCheck(alertCounts["force_push"]),
      StreakCheck(repo),
      ConventionalCheck(commitStats)>>

RECURSIVE ScoreSum(_, _)
\* the sum of the scores of the first i checks
ScoreSum(checks, i) ==
    IF i = 0 THEN 0 ELSE ScoreSum(checks, i - 1) + checks[i].Score

calculateOverallScore(checks) ==
    IF Len(checks) = 0 THEN 0
    ELSE TruncDiv(ScoreSum(checks, Len(checks)), Len(checks))

\* a status that looks at the score before the critical alerts
getOverallStatusByScore(score, severityCounts) ==
    IF score >= 80 THEN "healthy"
    ELSE IF score >= 50 THEN "warning"
    ELSE "critical"

getOverallStatus(score, severityCounts) ==
    IF severityCounts["critical"] > 0 THEN "critical"
    ELSE IF score >= 80 THEN "healthy"
    ELSE IF score >= 50 THEN "warning"
    ELSE "critical"

\* buildAlertSummaries: the map is ranged over in no fixed order, so the
\* summaries are kept as a set
buildAlertSummaries(typeCounts) ==
    {[Type |-> t,
      Severity |-> CASE t \in {"backdate_suspicious", "force_push",
                                "streak_at_risk"} -> "warning"
                     [] t = "backdate_critical" -> "critical"
                     [] t = "no_license" -> "info"
                     [] OTHER -> "",
      Count |-> typeCounts[t]] : t \in {u \in AlertTypes : typeCounts[u] > 0}}

\* buildContributorStats: the login shown for a contributor
ContributorLogin(c, email) ==
    IF c.github_login # NullText THEN c.github_login
    ELSE IF c.name # NullText THEN c.name
    ELSE email

\* buildContributorStats: commits per day between the first and last commit
CommitFrequencyOf(totalCommits, days) ==
    IF FGreater(days, Zero) THEN FDiv(FromInt(totalCommits), days)
    ELSE FromInt(totalCommits)

\* buildContributorStats for one contributor
ContributorStat(c, email, totalCommits) ==
    [Login |-> ContributorLogin(c, email),
     TotalCommits |-> c.total_commits,
     CommitFrequency |->
         CommitFrequencyOf(c.total_commits,
                           FDiv(DurationHours(c.last_commit_at
                                                - c.first_commit_at),
                                FromInt(24))),
     ContributionPattern |->
         IF totalCommits > 0
            /\ FGreater(FMul(FDiv(FromInt(c.total_commits),
                                  FromInt(totalCommits)), FromInt(100)),
                        FromInt(80))
         THEN "lone_wolf" ELSE "balanced"]

buildContributorStats(tbl, repoID, list, totalCommits) ==
    [i \in 1..Len(list) |->
        ContributorStat(tbl[<<repoID, list[i]>>], list[i], totalCommits)]

\* int(time.Since(lastActivityAt).Hours() / 24), 0 without a last activity
DaysSinceActivity(repo, at) ==
    IF repo.last_activity_at = Null THEN 0
    ELSE FToInt(FDiv(DurationHours(at - repo.last_activity_at), FromInt(24)))

\* the Scorecard put together from the checks and the overall score
ScorecardOf(name, repo, commitStats, counts, contributorStats, checks,
            overallScore, at) ==
    [Repository |-> [FullName |-> name, HasLicense |-> repo.has_license],
     OverallScore |-> overallScore,
     OverallStatus |-> getOverallStatus(overallScore, counts.severityCounts),
     Checks |-> checks,
     Alerts |-> buildAlertSummaries(counts.typeCounts),
     Contributors |-> contributorStats,
     ActivitySummary |->
        [TotalCommits |-> commitStats.TotalCommits,
         LastActivityAt |-> IF repo.last_activity_at = Null THEN ZeroTime
                            ELSE repo.last_activity_at,
         StreakStatus |-> repo.streak_status,
         DaysSinceActivity |-> DaysSinceActivity(repo, at),
         ForcePushCount |-> counts.typeCounts["force_push"],
         BackdateCount |-> counts.typeCounts["backdate_suspicious"]
                             + counts.typeCounts["backdate_critical"]],
     GeneratedAt |-> at]

\* the Scorecard put together from the checks
ScorecardOfChecks(name, repo, commitStats, counts, contributorStats, checks,
                  at) ==
    ScorecardOf(name, repo, commitStats, counts, contributorStats, checks,
                calculateOverallScore(checks), at)

\* buildScorecard from the results of its three queries, at a time of the
\* clock
buildScorecard(name, repo, commitStats, counts, contributorStats, at) ==
    ScorecardOfChecks(name, repo, commitStats, counts, contributorStats,
                      buildChecks(repo, commitStats, counts.typeCounts), at)

(***************************************************************************)
(* scorecard.Handler.ServeHTTP: GET /scorecard?repo=owner/name.  The       *)
(* lookup of the repository and the three queries of buildScorecard are    *)
(* four statements on the pool, without a transaction: each is one step.   *)
(***************************************************************************)
\* scorecard requests served in one behaviour
MaxScorecards == 2
\* waits of half a day between scorecard requests
MaxHalfDays == 2

NoRepository == [installation_id |-> 0, has_license |-> FALSE,
                 last_push_at |-> Null, last_activity_at |-> Null,
                 streak_status |-> ""]
NoStats == [err |-> TRUE, TotalCommits |-> 0, BackdatedCount |-> 0,
            ConventionalCount |-> 0]
NoCounts == [typeCounts |-> [t \in AlertTypes |-> 0],
             severityCounts |-> [v \in Severities |-> 0]]
NoCard == [Repository |-> [FullName |-> "", HasLicense |-> FALSE],
           OverallScore |-> 0, OverallStatus |-> "", Checks |-> <<>>,
           Alerts |-> {}, Contributors |-> <<>>,
           ActivitySummary |-> [TotalCommits |-> 0,
                                LastActivityAt |-> ZeroTime,
                                StreakStatus |-> "", DaysSinceActivity |-> 0,
                                ForcePushCount |-> 0, BackdateCount |-> 0],
           GeneratedAt |-> ZeroTime]

\* no scorecard request is being served; prev is the last report returned,
\* seen the results the three queries had on each state of the store since
\* the request arrived
ScIdle == [pc |-> "unused", name |-> "", status |-> 0, repo |-> NoRepository,
           commitStats |-> NoStats, counts |-> NoCounts, listed |-> <<>>,
           card |-> NoCard, prev |-> NoCard, served |-> 0, seen |-> {}]

\* what the three queries return for a repository on one state of the store
QueryResults(commitTbl, alertTbl, contributorTbl, repoID) ==
    [commitStats |-> GetStats(commitTbl, repoID),
     counts |-> CountByRepository(alertTbl, repoID),
     contributors |-> {[email |-> k[2], row |-> contributorTbl[k]] :
                          k \in {q \in DOMAIN contributorTbl : q[1] = repoID}}]

\* the rows ListByRepository returned, as the set QueryResults holds
ListedRows(listed) == {listed[i] : i \in DOMAIN listed}

\* RepositoryStore.GetByFullName, then 404 or the first query
ScServeHTTP ==
    /\ sc.pc = "idle"
    /\ sc.served < MaxScorecards
    /\ \E name \in Repos :
        sc' = IF name \in DOMAIN repositories
              THEN [sc EXCEPT !.pc = "stats", !.name = name, !.status = 0,
                              !.repo = repositories[name],
                              !.served = @ + 1,
                              !.seen = {QueryResults(commits, alerts,
                                                     contributors, name)}]
              ELSE [sc EXCEPT !.pc = "done", !.name = name, !.status = 404,
                              !.served = @ + 1]
    /\ UNCHANGED <<cfg, now, installations, repositories, commits,
                   contributors, alerts, push_events, log, req, delivered,
                   faults, sig, bd, cc, dist, vol, web>>

\* buildScorecard: commitStore.GetStats, 500 on its error
ScGetStats ==
    /\ sc.pc = "stats"
    /\ sc' = IF GetStats(commits, sc.name).err
             THEN [sc EXCEPT !.pc = "done", !.status = 500]
             ELSE [sc EXCEPT !.pc = "alerts",
                             !.commitStats = GetStats(commits, sc.name)]
    /\ UNCHANGED <<cfg, now, installations, repositories, commits,
                   contributors, alerts, push_events, log, req, delivered,
                   faults, sig, bd, cc, dist, vol, web>>

\* buildScorecard: alertStore.CountByRepository
ScCountByRepository ==
    /\ sc.pc = "alerts"
    /\ sc' = [sc EXCEPT !.pc = "contributors",
                        !.counts = CountByRepository(alerts, sc.name)]
    /\ UNCHANGED <<cfg, now, installations, repositories, commits,
                   contributors, alerts, push_events, log, req, delivered,
                   faults, sig, bd, cc, dist, vol, web>>

\* buildScorecard: contributorStore.ListByRepository, then the report is
\* built and written with status 200
ScListByRepository ==
    /\ sc.pc = "contributors"
    /\ \E list \in ListByRepository(contributors, sc.name) :
        sc' = [sc EXCEPT
                 !.pc = "done", !.status = 200,
                 !.listed = [i \in DOMAIN list |->
                               [email |-> list[i],
                                row |-> contributors[<<sc.name, list[i]>>]]],
                 !.card = buildScorecard(sc.name, sc.repo, sc.commitStats,
                              sc.counts,
                              buildContributorStats(contributors, sc.name,
                                  list, sc.commitStats.TotalCommits),
                              now)]
    /\ UNCHANGED <<cfg, now, installations, repositories, commits,
                   contributors, alerts, push_events, log, req, delivered,
                   faults, sig, bd, cc, dist, vol, web>>

\* the response has been written; the report stays as the last one returned
ScReturn ==
    /\ sc.pc = "done"
    /\ sc' = [ScIdle EXCEPT !.pc = "idle", !.served = sc.served,
                            !.prev = IF sc.status = 200 THEN sc.card
                                     ELSE sc.prev]
    /\ UNCHANGED <<cfg, now, installations, repositories, commits,
                   contributors, alerts, push_events, log, req, delivered,
                   faults, sig, bd, cc, dist, vol, web>>

\* half a day passes between two scorecard requests
ScWait ==
    /\ sc.pc = "idle"
    /\ now < T0 + MaxHalfDays * 12 * Hour
    /\ now' = now + 12 * Hour
    /\ UNCHANGED <<cfg, installations, repositories, commits, contributors,
                   alerts, push_events, log, req, delivered, faults, sig, bd,
                   cc, dist, vol, sc, web>>

(***************************************************************************)
(* The stores a scorecard is asked of: what handlePush, CheckStreaks and   *)
(* the license validation leave behind when no statement fails.            *)
(***************************************************************************)
\* pushes of commit s1 received 26 hours after its author date
MaxSuspiciousPushes == 5
\* pushes of commit s1 received at T0
MaxCriticalPushes == 1
\* forced pushes without commits
MaxForcedPushes == 5
\* the receipt time of the pushes before T0
EarlyPush == 26 * Hour

\* handleInstallation has stored installation 1 with repositories r1 and r2
InstalledStore ==
    [installations |-> Installs,
     repositories |-> StoreRepositories(<<>>, Installs, <<"r1", "r2">>, 1,
                                        {}, 1),
     commits |-> <<>>, contributors |-> <<>>, alerts |-> <<>>,
     push_events |-> <<>>]

\* processCommit on a store: the commit row, the alert of a backdated
\* commit, the contributor
CommitProcessed(store, repo, commit, row, alert, receiveTime) ==
    [store EXCEPT
        !.commits = InsertCommit(@, row),
        !.alerts = IF row.is_backdated
                   THEN Append(@, [repository_id |-> repo,
                                   commit_sha |-> commit.id,
                                   alert_type |-> alert.alert_type,
                                   severity |-> alert.severity])
                   ELSE @,
        !.contributors = UpsertContributor(@, repo, commit, receiveTime)]

\* processCommit on a store, for a row
RowProcessed(store, repo, commit, row, receiveTime, config) ==
    CommitProcessed(store, repo, commit, row,
                    BackdateAlert(row.backdate_hours,
                                  config.BackdateSuspiciousHours,
                                  config.BackdateCriticalHours),
                    receiveTime)

RECURSIVE CommitsProcessed(_, _, _, _, _)
\* handlePush's loop from commit i on
CommitsProcessed(store, ev, receiveTime, config, i) ==
    IF i > Len(ev.commits) THEN store
    ELSE CommitsProcessed(
            RowProcessed(store, ev.repo, HeadCommit(ev.commits[i]),
                         CommitRow(ev.repo, HeadCommit(ev.commits[i]),
                                   receiveTime,
                                   config.BackdateSuspiciousHours),
                         receiveTime, config),
            ev, receiveTime, config, i + 1)

\* storePushEvent on a store that holds the installation of the push
PushStoredIn(store, ev, receiveTime) ==
    [store EXCEPT
        !.repositories = UpsertRepositoryOnPush(@, ev.repo, ev.installation,
                                                receiveTime),
        !.push_events = Append(@, [repository_id |-> ev.repo,
                                   forced |-> ev.forced,
                                   commit_count |-> Len(ev.commits),
                                   received_at |-> receiveTime])]

\* the force-push alert of a forced push
ForcePushChecked(store, ev) ==
    IF ForcePushDue(ev)
    THEN [store EXCEPT !.alerts = CreateForcePushAlert(@, ev, "none")]
    ELSE store

\* handlePush on a store
PushHandledIn(store, ev, receiveTime, config) ==
    ForcePushChecked(
        CommitsProcessed(
            PushStoredIn(store, ev, receiveTime), ev, receiveTime, config, 1),
        ev)

RECURSIVE PushesHandledIn(_, _, _, _, _)
\* n deliveries of a push, one after the other
PushesHandledIn(store, ev, receiveTime, config, n) ==
    IF n = 0 THEN store
    ELSE PushesHandledIn(PushHandledIn(store, ev, receiveTime, config),
                         ev, receiveTime, config, n - 1)

\* CheckStreaks on a store whose only repository with activity is repo
StreaksCheckedIn(store, repo, at) ==
    IF repo \in ListAtRisk(store.repositories, at, StreakInactivityHours)
    THEN [store EXCEPT
            !.repositories[repo].streak_status = "at_risk",
            !.alerts = Append(@, [repository_id |-> repo, commit_sha |-> "",
                                  alert_type |-> "streak_at_risk",
                                  severity |-> "warning"])]
    ELSE store

\* RepositoryStore.UpdateLicense after a license file was found
LicenseFoundIn(store, repo, found) ==
    [store EXCEPT !.repositories[repo].has_license = found]

PushOf(cs, forced) == Event("push", TRUE, "", 1, "r1", cs, forced, <<>>, <<>>)

\* CheckStreaks on a store if it has run
StreaksCheckedIf(store, repo, at, checked) ==
    IF checked THEN StreaksCheckedIn(store, repo, at) ELSE store

\* the store after suspicious pushes of s1, forced empty pushes and a push
\* of other commits at EarlyPush, critical pushes of s1 at T0, CheckStreaks
\* at T0 if checked, and the license validation
ScStore(config, suspicious, forced, other, critical, checked, found) ==
    LicenseFoundIn(
        StreaksCheckedIf(
            PushesHandledIn(
                PushHandledIn(
                    PushesHandledIn(
                        PushesHandledIn(InstalledStore,
                            PushOf(<<"s1">>, FALSE), EarlyPush, config,
                            suspicious),
                        PushOf(<<>>, TRUE), EarlyPush, config, forced),
                    PushOf(other, FALSE), EarlyPush, config),
                PushOf(<<"s1">>, FALSE), T0, config, critical),
            "r1", T0, checked),
        "r1", found)

ScConfig ==
    [WebhookSecret |-> 1, gh |-> TRUE,
     BackdateSuspiciousHours |-> BackdateSuspiciousHours,
     BackdateCriticalHours |-> BackdateCriticalHours]

ScStores ==
    {ScStore(ScConfig, suspicious, forced, other, critical, checked, found) :
        suspicious \in 0..MaxSuspiciousPushes, forced \in 0..MaxForcedPushes,
        other \in {<<>>, <<"s3">>, <<"s2">>, <<"s2", "s3">>},
        critical \in 0..MaxCriticalPushes, checked \in BOOLEAN,
        found \in BOOLEAN}

\* the server at T0 on one of the stores, no request under way
InitOnStores(stores) ==
    /\ cfg = ScConfig
    /\ now = T0
    /\ \E s \in stores :
        /\ installations = s.installations
        /\ repositories = s.repositories
        /\ commits = s.commits
        /\ contributors = s.contributors
        /\ alerts = s.alerts
        /\ push_events = s.push_events
    /\ log = {}
    /\ req = Idle
    /\ delivered = 0
    /\ faults = 0

(***************************************************************************)
(* Push handlers running side by side: net/http serves each request on its *)
(* own goroutine, and every statement of handlePush is its own transaction.*)
(***************************************************************************)
Handlers == {1, 2}

\* the commits of the pushes the handlers receive, all to repository r1 of
\* installation 1 and none forced
WebPushes == {<<"s1">>, <<"s2">>}

WebIdle == [h \in Handlers |->
               [pc |-> "unused", commits |-> <<>>, receiveTime |-> ZeroTime,
                idx |-> 0]]

\* the scorecard request under way has seen one more state of the store
Observed(commitTbl, alertTbl, contributorTbl) ==
    IF sc.pc \in {"stats", "alerts", "contributors"}
    THEN [sc EXCEPT !.seen = @ \cup {QueryResults(commitTbl, alertTbl,
                                                  contributorTbl, sc.name)}]
    ELSE sc

\* Handler.ServeHTTP up to the call of handlePush: the receipt time is read
\* from the clock when the request arrives
WebServeHTTP ==
    /\ \E h \in Handlers, cs \in WebPushes :
        /\ web[h].pc = "idle"
        /\ web' = [web EXCEPT ![h] = [pc |-> "upsert", commits |-> cs,
                                      receiveTime |-> now, idx |-> 1]]
    /\ UNCHANGED <<cfg, now, installations, repositories, commits,
                   contributors, alerts, push_events, log, req, delivered,
                   faults, sig, bd, cc, dist, vol, sc>>

\* storePushEvent: the upsert of the repository
WebUpsertRepository ==
    /\ \E h \in Handlers :
        /\ web[h].pc = "upsert"
        /\ repositories' = UpsertRepositoryOnPush(repositories, "r1", 1,
                                                  web[h].receiveTime)
        /\ web' = [web EXCEPT ![h].pc = "push_event"]
    /\ UNCHANGED <<cfg, now, installations, commits, contributors, alerts,
                   push_events, log, req, delivered, faults, sig, bd, cc,
                   dist, vol, sc>>

\* storePushEvent: the insert of the push_events row
WebInsertPushEvent ==
    /\ \E h \in Handlers :
        /\ web[h].pc = "push_event"
        /\ push_events' = Append(push_events,
                              [repository_id |-> "r1", forced |-> FALSE,
                               commit_count |-> Len(web[h].commits),
                               received_at |-> web[h].receiveTime])
        /\ web' = [web EXCEPT ![h].pc = "commit"]
    /\ UNCHANGED <<cfg, now, installations, repositories, commits,
                   contributors, alerts, log, req, delivered, faults, sig,
                   bd, cc, dist, vol, sc>>

\* the row processCommit builds for the commit a handler is at
WebRow(h) ==
    CommitRow("r1", HeadCommit(web[h].commits[web[h].idx]),
              web[h].receiveTime, cfg.BackdateSuspiciousHours)

\* processCommit: the insert of the commit row
WebInsertCommit ==
    /\ \E h \in Handlers :
        /\ web[h].pc = "commit"
        /\ commits' = InsertCommit(commits, WebRow(h))
        /\ web' = [web EXCEPT ![h].pc = IF WebRow(h).is_backdated
                                        THEN "alert" ELSE "contributor"]
    /\ sc' = Observed(commits', alerts, contributors)
    /\ UNCHANGED <<cfg, now, installations, repositories, contributors,
                   alerts, push_events, log, req, delivered, faults, sig, bd,
                   cc, dist, vol>>

\* the alert row for the backdated commit a handler is at
WebAlert(h, alert) ==
    [repository_id |-> "r1", commit_sha |-> web[h].commits[web[h].idx],
     alert_type |-> alert.alert_type, severity |-> alert.severity]

\* processCommit: the insert of the backdate alert
WebInsertAlert ==
    /\ \E h \in Handlers :
        /\ web[h].pc = "alert"
        /\ alerts' = Append(alerts,
                         WebAlert(h, BackdateAlert(WebRow(h).backdate_hours,
                                                   cfg.BackdateSuspiciousHours,
                                                   cfg.BackdateCriticalHours)))
        /\ web' = [web EXCEPT ![h].pc = "contributor"]
    /\ sc' = Observed(commits, alerts', contributors)
    /\ UNCHANGED <<cfg, now, installations, repositories, commits,
                   contributors, push_events, log, req, delivered, faults,
                   sig, bd, cc, dist, vol>>

\* updateContributor, then the next commit of the push or the end of
\* handlePush
WebUpdateContributor ==
    /\ \E h \in Handlers :
        /\ web[h].pc = "contributor"
        /\ contributors' = UpsertContributor(contributors, "r1",
                               HeadCommit(web[h].commits[web[h].idx]),
                               web[h].receiveTime)
        /\ web' = [web EXCEPT
                     ![h].idx = @ + 1,
                     ![h].pc = IF web[h].idx + 1 > Len(web[h].commits)
                               THEN "done" ELSE "commit"]
    /\ sc' = Observed(commits, alerts, contributors')
    /\ UNCHANGED <<cfg, now, installations, repositories, commits, alerts,
                   push_events, log, req, delivered, faults, sig, bd, cc,
                   dist, vol>>

(***************************************************************************)
(* The server: configuration and store at start-up, and the next steps.    *)
(***************************************************************************)
Configs ==
    {c \in [WebhookSecret : {0, 1}, gh : BOOLEAN,
            BackdateSuspiciousHours : {BackdateSuspiciousHours},
            BackdateCriticalHours : {BackdateCriticalHours}] :
        c.gh \/ c.WebhookSecret = 0}

\* the stores the server starts on: empty, and one installation whose
\* repository r1 was last pushed to (an empty push) at time 0
InitStores ==
    {[installations |-> {}, repositories |-> <<>>, push_events |-> <<>>],
     [installations |-> Installs,
      repositories |-> UpsertRepositoryOnPush(<<>>, "r1", 1, 0),
      push_events |-> <<[repository_id |-> "r1", forced |-> FALSE,
                         commit_count |-> 0, received_at |-> 0]>>]}

InitServer(configs, stores) ==
    /\ cfg \in configs
    /\ now = T0
    /\ \E s \in stores :
        /\ installations = s.installations
        /\ repositories = s.repositories
        /\ push_events = s.push_events
    /\ commits = <<>>
    /\ contributors = <<>>
    /\ alerts = <<>>
    /\ log = {}
    /\ req = Idle
    /\ delivered = 0
    /\ faults = 0

\* no call of a pure function is under way
PureIdle(skip) ==
    /\ "sig" \in skip \/ sig = SigIdle
    /\ "bd" \in skip \/ bd = BdIdle
    /\ "cc" \in skip \/ cc = CcIdle
    /\ "dist" \in skip \/ dist = DistIdle
    /\ "vol" \in skip \/ vol = VolIdle
    /\ "sc" \in skip \/ sc = ScIdle
    /\ "web" \in skip \/ web = WebIdle

Init == InitServer(Configs, InitStores) /\ PureIdle({})

\* a server that receives nothing, for the calls of the pure functions
InitQuiet ==
    InitServer({c \in Configs : c.gh /\ c.WebhookSecret = 1},
               {s \in InitStores : s.installations = {}})

Next ==
    \/ Receive
    \/ Return
    \/ Tick
    \/ HandlePush
    \/ ProcessCommit
    \/ FinishPush
    \/ HandleInstallation
    \/ HandleInstallationRepositories
    \/ CheckStreaks

Spec == Init /\ [][Next]_vars

\* scorecard requests on a store nothing writes to
InitScorecard ==
    /\ InitOnStores(ScStores)
    /\ sc = [ScIdle EXCEPT !.pc = "idle"]
    /\ PureIdle({"sc"})

ScNext ==
    \/ ScServeHTTP
    \/ ScGetStats
    \/ ScCountByRepository
    \/ ScListByRepository
    \/ ScReturn
    \/ ScWait

SpecScorecard == InitScorecard /\ [][ScNext]_vars

\* two push handlers and the scorecard handler side by side, with one
\* scorecard request left to serve
InitConcurrent ==
    /\ InitOnStores({InstalledStore})
    /\ sc = [ScIdle EXCEPT !.pc = "idle", !.served = MaxScorecards - 1]
    /\ web = [h \in Handlers |-> [WebIdle[h] EXCEPT !.pc = "idle"]]
    /\ PureIdle({"sc", "web"})

ConcurrentNext ==
    \/ WebServeHTTP
    \/ WebUpsertRepository
    \/ WebInsertPushEvent
    \/ WebInsertCommit
    \/ WebInsertAlert
    \/ WebUpdateContributor
    \/ Tick
    \/ ScServeHTTP
    \/ ScGetStats
    \/ ScCountByRepository
    \/ ScListByRepository
    \/ ScReturn

SpecConcurrent == InitConcurrent /\ [][ConcurrentNext]_vars

\* one call of ValidateSignature
InitSig == InitQuiet /\ SigInit /\ PureIdle({"sig"})
SpecSig == InitSig /\ [][SigValidate]_vars

\* one call of AnalyzeBackdate
InitBackdate == InitQuiet /\ BdInit /\ PureIdle({"bd"})
SpecBackdate == InitBackdate /\ [][BdAnalyze]_vars

\* one commit message given to both conventional-commit parsers
InitConventional == InitQuiet /\ CcInit /\ PureIdle({"cc"})
SpecConventional == InitConventional /\ [][CcParse]_vars

\* one call of AnalyzeDistribution
InitDistribution == InitQuiet /\ DistInit /\ PureIdle({"dist"})
SpecDistribution == InitDistribution /\ [][DistAnalyze]_vars

\* one call of AnalyzeVolume
InitVolume == InitQuiet /\ VolInit /\ PureIdle({"vol"})
SpecVolume == InitVolume /\ [][VolAnalyze]_vars

(***************************************************************************)
(* Observations used by the properties.                                    *)
(***************************************************************************)
\* the alerts inserted since the current request was received
NewAlerts == SubSeq(alerts, req.alertBase + 1, Len(alerts))

CountType(rows, type) ==
    Cardinality({i \in 1..Len(rows) : rows[i].alert_type = type})

AlertsFor(rows, sha) ==
    {i \in 1..Len(rows) : rows[i].commit_sha = sha}

\* handlePush has returned for a push event whose payload parsed
PushHandled ==
    /\ req.pc = "done"
    /\ req.status = 200
    /\ req.event.type = "push"
    /\ req.event.parses

\* the push record was stored
PushStored == "store" \notin req.failed

\* no store statement of the current request failed
NoWriteFailed ==
    /\ req.failed = {}
    /\ \A i \in 1..Len(req.results) : req.results[i].failed = {}

\* the backdate hours processCommit computes for a sha of the current push
LagHours(sha) == HoursBetween(req.receiveTime, HeadCommit(sha).timestamp)

Range(s) == {s[i] : i \in 1..Len(s)}

(***************************************************************************)
(* C1: however often a sha is delivered, there is one Commit fact for it   *)
(* and the author's total_commits was incremented once for it: no          *)
(* contributor counts more commits than there are Commit facts by that     *)
(* author.                                                                 *)
(***************************************************************************)
C1_CountedOncePerSha ==
    \A key \in DOMAIN contributors :
        contributors[key].total_commits
            <= Cardinality({sha \in DOMAIN commits :
                               commits[sha].author_email = key[2]})

(***************************************************************************)
(* C2: a push of 3 unseen commits, one authored 100 hours before receipt   *)
(* and the others within the suspicious threshold, forced, all writes      *)
(* succeeding, creates 3 Commit facts, one backdate_critical alert, no     *)
(* backdate_suspicious alert and one force_push alert.                     *)
(***************************************************************************)
C2_Scenario ==
    /\ PushHandled
    /\ NoWriteFailed
    /\ req.event.forced
    /\ Len(req.event.commits) = 3
    /\ Cardinality(Range(req.event.commits)) = 3
    /\ Range(req.event.commits) \cap req.seen = {}
    /\ cfg.BackdateSuspiciousHours = 24
    /\ cfg.BackdateCriticalHours = 72
    /\ Cardinality({sha \in Range(req.event.commits) : LagHours(sha) = 100}) = 1
    /\ \A sha \in Range(req.event.commits) :
          LagHours(sha) = 100 \/ LagHours(sha) <= cfg.BackdateSuspiciousHours

C2_EndToEnd ==
    C2_Scenario =>
        /\ DOMAIN commits \ req.seen = Range(req.event.commits)
        /\ Cardinality(DOMAIN commits \ req.seen) = 3
        /\ CountType(NewAlerts, "backdate_critical") = 1
        /\ CountType(NewAlerts, "backdate_suspicious") = 0
        /\ CountType(NewAlerts, "force_push") = 1

C2_Witness == C2_Scenario /\ CountType(NewAlerts, "backdate_critical") = 1

(***************************************************************************)
(* C3 as stated: for every push whose payload parses there is exactly one  *)
(* force_push alert when forced is set and none otherwise, whatever the    *)
(* outcome of storing the push record or of processing the commits (the    *)
(* alert's own insert is taken to succeed).                                *)
(***************************************************************************)
C3_Original ==
    (PushHandled /\ "force_push" \notin req.failed) =>
        CountType(NewAlerts, "force_push") = IF req.event.forced THEN 1 ELSE 0

(***************************************************************************)
(* C3 amended: for every push whose payload parses, there is exactly one   *)
(* force_push alert when forced is set, the push record was stored and the *)
(* alert's insert succeeded, and none otherwise, whatever the number of    *)
(* commits and the outcome of processing them.                             *)
(***************************************************************************)
C3_ForcePushOncePerStoredPush ==
    PushHandled =>
        CountType(NewAlerts, "force_push") =
            IF req.event.forced /\ PushStored /\ "force_push" \notin req.failed
            THEN 1 ELSE 0

C3_Witness ==
    /\ PushHandled
    /\ req.event.forced
    /\ Len(req.event.commits) >= 2
    /\ \E i \in 1..Len(req.results) : req.results[i].failed # {}
    /\ CountType(NewAlerts, "force_push") = 1

(***************************************************************************)
(* C4: when processing of the commit at position i fails, every commit at  *)
(* a later position is still processed, in payload order, and gets its     *)
(* Commit fact, its alert and its contributor update.                      *)
(***************************************************************************)
C4_SiblingsProcessed ==
    (PushHandled /\ PushStored) =>
        /\ Len(req.results) = Len(req.event.commits)
        /\ \A j \in 1..Len(req.results) :
            LET sha == req.event.commits[j]
                key == <<req.event.repo, HeadCommit(sha).email>>
            IN  /\ req.results[j].sha = sha
                /\ req.results[j].failed = {} =>
                     /\ sha \in DOMAIN commits
                     /\ key \in DOMAIN contributors
                     /\ contributors[key].last_commit_at = req.receiveTime
                     /\ (LagHours(sha) > cfg.BackdateSuspiciousHours)
                          = (\E a \in AlertsFor(NewAlerts, sha) : TRUE)

C4_Witness ==
    /\ PushHandled
    /\ PushStored
    /\ \E i, j \in 1..Len(req.results) :
        /\ i < j
        /\ req.results[i].failed \cap {"lookup", "commit"} # {}
        /\ req.results[j].failed = {}
        /\ req.results[j].sha \in DOMAIN commits
        /\ AlertsFor(NewAlerts, req.results[j].sha) # {}

(***************************************************************************)
(* Observations of one call of ValidateSignature.                          *)
(***************************************************************************)
SigReturned == sig.pc = "returned"

HexDigits == Range(LowerHex) \cup Range(UpperHex)

\* the text is an even number of hex digits of either case
IsHex(s) == Len(s) % 2 = 0 /\ \A i \in 1..Len(s) : s[i] \in HexDigits

\* strings.ToLower / strings.ToUpper on hex digits
ToLowerHex(s) ==
    [i \in 1..Len(s) |->
        IF \E k \in 11..16 : UpperHex[k] = s[i]
        THEN LowerHex[CHOOSE k \in 11..16 : UpperHex[k] = s[i]]
        ELSE s[i]]
ToUpperHex(s) ==
    [i \in 1..Len(s) |->
        IF \E k \in 11..16 : LowerHex[k] = s[i]
        THEN UpperHex[CHOOSE k \in 11..16 : LowerHex[k] = s[i]]
        ELSE s[i]]

\* the lower-case hex of HMAC-SHA256(secret, body) for the call
SigDigestHex == HexEncodeToString(HmacSum(sig.secret, sig.payload))

\* the outcomes of the call in the order the checks are made
SigCheckedInOrder ==
    LET rest == TrimPrefix(sig.signature)
    IN  sig.err =
          IF sig.signature = <<>> THEN ErrMissingSignature
          ELSE IF ~HasPrefix(sig.signature) \/ ~IsHex(rest)
               THEN ErrInvalidSignature
          ELSE IF ToLowerHex(rest) # SigDigestHex THEN ErrSignatureMismatch
          ELSE Nil

(***************************************************************************)
(* C5 as stated: ValidateSignature returns MissingSignature for an empty   *)
(* header, else InvalidSignature for a header without the 'sha256=' prefix *)
(* or with undecodable hex, else SignatureMismatch when the decoded bytes  *)
(* differ from the HMAC, else success; and success is returned if and only *)
(* if the header is 'sha256=' followed by the hex of the HMAC.             *)
(***************************************************************************)
C5_Original ==
    SigReturned =>
        /\ SigCheckedInOrder
        /\ (sig.err = Nil) = (sig.signature = <<"sha256=">> \o SigDigestHex)

(***************************************************************************)
(* C5 amended: the same outcomes in the same order; success is returned if *)
(* and only if the header is 'sha256=' followed by the hex of the HMAC     *)
(* written with lower-case, upper-case or mixed-case digits.               *)
(***************************************************************************)
C5_SignatureOutcome ==
    SigReturned =>
        /\ SigCheckedInOrder
        /\ (sig.err = Nil) =
             (/\ HasPrefix(sig.signature)
              /\ ToLowerHex(TrimPrefix(sig.signature)) = SigDigestHex)

C5_Witness ==
    /\ SigReturned
    /\ sig.err = Nil
    /\ sig.signature = <<"sha256=">> \o ToUpperHex(SigDigestHex)
    /\ sig.signature # <<"sha256=">> \o SigDigestHex

(***************************************************************************)
(* Observations of the request being served.                               *)
(***************************************************************************)
\* the request was dispatched to the routing switch
Routed ==
    \/ req.pc \in {"push", "commits", "installation", "installation_repositories"}
    \/ req.pc = "done" /\ req.status = 200

\* no secret is configured or the signature verified
Verified == cfg.WebhookSecret = 0 \/ req.sigErr = Nil

C7_NoSecretMaterialLogged ==
    req.status = 401 =>
        \A l \in log :
            l.field \notin {"expected", "received", "secret_hex",
                            "signature_header"}

(***************************************************************************)
(* C8: AnalyzeBackdate computes diffHours as the receipt-minus-author      *)
(* duration in hours truncated toward zero, flags suspicious exactly when  *)
(* diffHours > suspicious and critical exactly when diffHours > critical;  *)
(* a 25-hour lag with thresholds 24/72 is suspicious and not critical, a   *)
(* 24-hour lag is neither, and with non-negative thresholds a negative     *)
(* diffHours is never flagged.                                             *)
(***************************************************************************)
C8_BackdateClassification ==
    bd.pc = "returned" =>
        LET d == bd.pushedAt - bd.authorDate
            h == bd.result.DifferenceHours
            defaults == /\ bd.suspicious = 24
                        /\ bd.critical = 72
        IN  /\ d >= 0 => h >= 0 /\ h * Hour <= d /\ d < (h + 1) * Hour
            /\ d < 0 => h <= 0 /\ h * Hour >= d /\ d > (h - 1) * Hour
            /\ bd.result.IsSuspicious = (h > bd.suspicious)
            /\ bd.result.IsCritical = (h > bd.critical)
            /\ (d = 25 * Hour /\ defaults) =>
                  bd.result.IsSuspicious /\ ~bd.result.IsCritical
            /\ (d = 24 * Hour /\ defaults) =>
                  ~bd.result.IsSuspicious /\ ~bd.result.IsCritical
            /\ (h < 0 /\ bd.suspicious >= 0 /\ bd.critical >= 0) =>
                  ~bd.result.IsSuspicious /\ ~bd.result.IsCritical

C8_Witness ==
    /\ bd.pc = "returned"
    /\ bd.pushedAt - bd.authorDate = 25 * Hour
    /\ bd.suspicious = 24
    /\ bd.critical = 72
    /\ bd.result.DifferenceHours = 25
    /\ bd.result.IsSuspicious
    /\ ~bd.result.IsCritical

(***************************************************************************)
(* Observations of one processCommit step.                                 *)
(***************************************************************************)
\* the step is one call of processCommit
CommitStep == Len(req'.results) = Len(req.results) + 1

\* the alerts the step inserted
StepAlerts == SubSeq(alerts', Len(alerts) + 1, Len(alerts'))

\* the alert the ranges of the thresholds call for
RangeAlert(repo, sha, diffHours) ==
    [repository_id |-> repo, commit_sha |-> sha,
     alert_type |-> IF diffHours > cfg.BackdateCriticalHours
                    THEN "backdate_critical" ELSE "backdate_suspicious",
     severity |-> IF diffHours > cfg.BackdateCriticalHours
                  THEN "critical" ELSE "warning"]

(***************************************************************************)
(* C9: with critical >= suspicious, each processing of a commit (its store *)
(* writes succeeding) emits no backdate alert when diffHours <= suspicious,*)
(* exactly one backdate_suspicious warning when suspicious < diffHours <=  *)
(* critical and exactly one backdate_critical alert when diffHours >       *)
(* critical, never both; and the commit's is_backdated flag is true        *)
(* exactly when an alert was due.                                          *)
(***************************************************************************)
C9_AlertByRange ==
    [][(CommitStep /\ faults' = faults) =>
        LET sha == req'.results[Len(req'.results)].sha
            diffHours == LagHours(sha)
            due == diffHours > cfg.BackdateSuspiciousHours
        IN  cfg.BackdateCriticalHours >= cfg.BackdateSuspiciousHours =>
            /\ StepAlerts = IF due
                            THEN <<RangeAlert(req.event.repo, sha, diffHours)>>
                            ELSE <<>>
            /\ sha \in DOMAIN commits'
            /\ commits'[sha].is_backdated = due]_vars

(***************************************************************************)
(* C10: after a push event for repository R has been stored, R's streak    *)
(* status is 'active' and R's last-push and last-activity timestamps both  *)
(* equal the event's receipt time, also when R was 'at_risk' before the    *)
(* push and when R is first seen through the push.                         *)
(***************************************************************************)
C10_PushActivatesStreak ==
    (req.pc = "commits" \/ (PushHandled /\ PushStored)) =>
        LET R == req.event.repo
        IN  /\ R \in DOMAIN repositories
            /\ repositories[R].streak_status = "active"
            /\ repositories[R].last_push_at = req.receiveTime
            /\ repositories[R].last_activity_at = req.receiveTime
            /\ push_events[Len(push_events)].repository_id = R
            /\ push_events[Len(push_events)].received_at = req.receiveTime

\* the first request is a push to a repository CheckStreaks had marked at_risk
C10_Witness ==
    /\ req.pc = "commits"
    /\ delivered = 1
    /\ \E i \in 1..req.alertBase :
        /\ alerts[i].alert_type = "streak_at_risk"
        /\ alerts[i].repository_id = req.event.repo
    /\ repositories[req.event.repo].streak_status = "active"
    /\ repositories[req.event.repo].last_push_at = req.receiveTime

(***************************************************************************)
(* C11: when a commit updates an existing Contributor aggregate, a stored  *)
(* non-empty login or name is left unchanged if the incoming one is empty; *)
(* a non-empty stored value is only ever replaced by a non-empty value.    *)
(***************************************************************************)
C11_NonEmptyKept ==
    [][CommitStep =>
        LET author == HeadCommit(req'.results[Len(req'.results)].sha)
            key == <<req.event.repo, author.email>>
        IN  key \in DOMAIN contributors =>
            /\ (author.login = "" /\ contributors[key].github_login # "")
                 => contributors'[key].github_login
                      = contributors[key].github_login
            /\ (author.name = "" /\ contributors[key].name # "")
                 => contributors'[key].name = contributors[key].name
            /\ contributors[key].github_login # ""
                 => contributors'[key].github_login # ""
            /\ contributors[key].name # "" => contributors'[key].name # ""]_vars

\* the call of both conventional-commit parsers has returned
CcReturned == cc.pc = "returned"

\* s starts with p
StartsWith(s, p) == Len(s) >= Len(p) /\ SubSeq(s, 1, Len(p)) = p

(***************************************************************************)
(* C12: for every vocabulary type t, scope s and description d, 't(s)!: d' *)
(* is conventional with type t and scope s, and 't!: d' is conventional    *)
(* with type t and no scope, in the classification stored at ingestion and *)
(* in the analysis parser, which also reports breaking = true.             *)
(***************************************************************************)
C12_BreakingMark ==
    CcReturned =>
        \A t \in validTypes :
            /\ cc.message = t \o <<"(","s",")","!",":"," ","d">> =>
                /\ cc.stored = [IsConventional |-> TRUE, Type |-> t,
                                Scope |-> <<"s">>]
                /\ cc.parsed.IsValid /\ cc.parsed.Type = t
                /\ cc.parsed.Scope = <<"s">> /\ cc.parsed.IsBreaking
            /\ cc.message = t \o <<"!",":"," ","d">> =>
                /\ cc.stored = [IsConventional |-> TRUE, Type |-> t,
                                Scope |-> <<>>]
                /\ cc.parsed.IsValid /\ cc.parsed.Type = t
                /\ cc.parsed.Scope = <<>> /\ cc.parsed.IsBreaking

(***************************************************************************)
(* C13: the type token is matched without regard to case: 'T: d' and       *)
(* 'T(s): d', T an upper/lower-case variant of a vocabulary type t, are    *)
(* conventional with type t in the classification stored at ingestion and  *)
(* in the analysis parser.                                                 *)
(***************************************************************************)
C13_CaseInsensitiveType ==
    CcReturned =>
        \A T \in TypeWords :
            LET t == ToLower(T)
            IN  (t \in validTypes /\
                 cc.message \in {T \o <<":"," ","d">>,
                                 T \o <<"(","s",")",":"," ","d">>}) =>
                    /\ cc.stored.IsConventional /\ cc.stored.Type = t
                    /\ cc.parsed.IsValid /\ cc.parsed.Type = t

\* the first line of the message is a word, then '(' scope ')' with a
\* non-empty scope free of parentheses, then an optional '!', then ':'
HasScopeForm(message, scope) ==
    LET w == Leading(message, TRUE, 1)
    IN  /\ w >= 1
        /\ scope # <<>>
        /\ Range(scope) \cap {"(", ")", "\n"} = {}
        /\ \E b \in BangParts :
             StartsWith(message, Slice(message, 0, w) \o <<"(">> \o scope
                                   \o <<")">> \o b \o <<":">>)

\* an open parenthesis without its close, text after the close, a nested
\* unclosed parenthesis
BrokenScopes == {<<"(","s">>, <<"(","s",")","x">>, <<"(","a","(","b",")">>}

(***************************************************************************)
(* C14: a message is conventional with a scope only if its first line is   *)
(* type, '(' scope ')' balanced directly after the type, optional '!',     *)
(* colon; with an unclosed parenthesis, text between ')' and ':', or a     *)
(* nested unclosed parenthesis in the scope it is not conventional and no  *)
(* type or scope is populated, in both parsers.                            *)
(***************************************************************************)
C14_ScopeBalanced ==
    CcReturned =>
        /\ (cc.stored.IsConventional /\ cc.stored.Scope # <<>>)
             => HasScopeForm(cc.message, cc.stored.Scope)
        /\ (cc.parsed.IsValid /\ cc.parsed.Scope # <<>>)
             => HasScopeForm(cc.message, cc.parsed.Scope)
        /\ \A t \in validTypes, sp \in BrokenScopes, b \in BangParts :
             cc.message = t \o sp \o b \o <<":"," ","d">> =>
                /\ cc.stored = NotConventional
                /\ cc.parsed = NotValid

\* the call of AnalyzeDistribution has returned
DistReturned == dist.pc = "returned"

(***************************************************************************)
(* C15: for every non-empty list of contributors the Gini coefficient of   *)
(* AnalyzeDistribution lies in [0, 1]; it is 0 when all contributors have  *)
(* the same commit count and when there is no commit at all.               *)
(***************************************************************************)
C15_GiniRange ==
    (DistReturned /\ dist.contributors # <<>>) =>
        LET gini == dist.result.GiniCoefficient
        IN  /\ FGeq(gini, Zero)
            /\ FGeq(FromInt(1), gini)
            /\ (\A i \in 1..Len(dist.contributors) :
                    dist.contributors[i] = dist.contributors[1])
                 => gini = Zero

(***************************************************************************)
(* C16: the pattern of AnalyzeDistribution is that of the first matching   *)
(* rule: no contributor, no_activity; one contributor, solo; top share     *)
(* over 80%, lone_wolf; Gini under 0.3, balanced; Gini under 0.5,          *)
(* moderate_imbalance; else imbalanced.  The top contributor has the       *)
(* largest commit count; a share of exactly 80% is not lone_wolf, a share  *)
(* over 80% is lone_wolf whatever the Gini coefficient.                    *)
(***************************************************************************)
C16_PatternByFirstRule ==
    DistReturned =>
        LET r == dist.result
            n == Len(dist.contributors)
            total == SumSeq(dist.contributors)
            top == r.TopContributor
            over80 == FGreater(top.CommitShare, FromInt(80))
            under03 == FLess(r.GiniCoefficient, FDiv(FromInt(3), FromInt(10)))
            under05 == FLess(r.GiniCoefficient, FDiv(FromInt(1), FromInt(2)))
        IN  /\ r.TotalContributors = n
            /\ n = 0 => r.Pattern = "no_activity"
            /\ n = 1 => r.Pattern = "solo"
            /\ n > 1 =>
                /\ top.Commits = MaxOfSeq(dist.contributors)
                /\ dist.contributors[top.Login] = top.Commits
                /\ r.Pattern =
                     IF over80 THEN "lone_wolf"
                     ELSE IF under03 THEN "balanced"
                     ELSE IF under05 THEN "moderate_imbalance"
                     ELSE "imbalanced"
                /\ (total > 0 /\ 5 * top.Commits = 4 * total)
                     => r.Pattern # "lone_wolf"
                /\ 5 * top.Commits > 4 * total => r.Pattern = "lone_wolf"

\* a top share of exactly 80% with a Gini coefficient of 0.5 or more
C16_Witness ==
    /\ DistReturned
    /\ Len(dist.contributors) > 1
    /\ 5 * dist.result.TopContributor.Commits = 4 * dist.result.TotalCommits
    /\ dist.result.TotalCommits > 0
    /\ dist.result.Pattern = "imbalanced"

\* the call of AnalyzeVolume has returned
VolReturned == vol.pc = "returned"

\* the sum of the buckets' commit counts
BucketTotal ==
    SumSeq([i \in 1..Len(vol.activities) |-> vol.activities[i].Commits])

(***************************************************************************)
(* C17: for every input of AnalyzeVolume, with or without a window,        *)
(* active_days <= total_days, and total_commits is the sum of the          *)
(* buckets' commit counts.                                                 *)
(***************************************************************************)
C17_ActiveWithinTotal ==
    VolReturned =>
        /\ vol.result.ActiveDays <= vol.result.TotalDays
        /\ vol.result.TotalCommits = BucketTotal

\* there is no window, or the window does not end before it starts
WindowInOrder ==
    \/ vol.hackathonStart = ZeroTime
    \/ vol.hackathonEnd = ZeroTime
    \/ vol.hackathonStart <= vol.hackathonEnd

\* the last day of the window: of the explicit one, else of the buckets
WindowEndDay ==
    IF vol.hackathonStart # ZeroTime /\ vol.hackathonEnd # ZeroTime
    THEN FormatDate(vol.hackathonEnd)
    ELSE FormatDate(vol.activities[Len(vol.activities)].Date)

\* the final 20% of the window's days, at least one day
FinalDays ==
    IF (vol.result.TotalDays * 20) \div 100 < 1 THEN 1
    ELSE (vol.result.TotalDays * 20) \div 100

\* the commits dated within the final days of the window
FinalDaysCommits ==
    SumSeq([i \in 1..Len(vol.activities) |->
        IF /\ FormatDate(vol.activities[i].Date) > WindowEndDay - FinalDays
           /\ FormatDate(vol.activities[i].Date) <= WindowEndDay
        THEN vol.activities[i].Commits ELSE 0])

\* more than 50% of all commits are dated within the final days
DeadlineCondition == 2 * FinalDaysCommits > BucketTotal

(***************************************************************************)
(* C18: a series with commits is deadline_dumper exactly when more than    *)
(* 50% of its commits are dated within the final 20% of the window's       *)
(* calendar days (at least one day).                                       *)
(***************************************************************************)
C18_DeadlineByCalendarDays ==
    (VolReturned /\ vol.activities # <<>> /\ WindowInOrder /\ BucketTotal > 0)
        => (vol.result.Pattern = "deadline_dumper" <=> DeadlineCondition)

(***************************************************************************)
(* C19: the pattern of AnalyzeVolume is that of the first matching rule:   *)
(* no commits, no_activity; deadline-dumper condition, deadline_dumper;    *)
(* consistency >= 70, daily_builder; consistency >= 40, moderate_builder;  *)
(* busiest day over 3 times the average per day, burst_coder; else         *)
(* sporadic.  burst_coder is never returned with consistency >= 40.        *)
(***************************************************************************)
C19_PatternByFirstRule ==
    (VolReturned /\ vol.activities # <<>> /\ WindowInOrder) =>
        LET r == vol.result
        IN  /\ r.Pattern =
                 IF BucketTotal = 0 THEN "no_activity"
                 ELSE IF DeadlineCondition THEN "deadline_dumper"
                 ELSE IF FGeq(r.ConsistencyScore, FromInt(70))
                      THEN "daily_builder"
                 ELSE IF FGeq(r.ConsistencyScore, FromInt(40))
                      THEN "moderate_builder"
                 ELSE IF FGreater(FromInt(r.MaxDailyCommits),
                                  FMul(r.AveragePerDay, FromInt(3)))
                      THEN "burst_coder"
                 ELSE "sporadic"
            /\ r.Pattern = "burst_coder"
                 => ~FGeq(r.ConsistencyScore, FromInt(40))

(***************************************************************************)
(* C20: for every input of AnalyzeVolume the consistency score is a        *)
(* defined number between 0 and 100, also when all buckets have no         *)
(* commits, when the window ends before it starts and when there are more  *)
(* active buckets than days in the window.                                 *)
(***************************************************************************)
C20_ConsistencyInRange ==
    VolReturned =>
        /\ ~IsNaN(vol.result.ConsistencyScore)
        /\ FGeq(vol.result.ConsistencyScore, Zero)
        /\ FGeq(FromInt(100), vol.result.ConsistencyScore)
(***************************************************************************)
(* C27: the classifier of the webhook handler and the analysis parser      *)
(* agree on every commit message: the same is-conventional verdict, the    *)
(* same type and the same scope, also for an empty scope 't(): d', an      *)
(* empty description 't:', an upper-case type, a '!' marker and text       *)
(* between ')' and ':'.                                                     *)
(***************************************************************************)
C27_ParsersAgree ==
    CcReturned =>
        /\ cc.stored.IsConventional = cc.parsed.IsValid
        /\ cc.stored.Type = cc.parsed.Type
        /\ cc.stored.Scope = cc.parsed.Scope


(***************************************************************************)
(* C24: a verified event that is a ping, has an unknown event type, is an  *)
(* installation event with action 'deleted', or is an                      *)
(* installation_repositories event that lists no added repository is       *)
(* answered with status 200 and no step of its handling changes a stored   *)
(* record: installations, repositories, commits, contributors, push events *)
(* and alerts stay as they were, and no repository is deleted.             *)
(***************************************************************************)
\* the events the claim is about
QuietEvent(ev) ==
    \/ ev.type \notin {"push", "installation", "installation_repositories"}
    \/ ev.type = "installation" /\ ev.action = "deleted"
    \/ ev.type = "installation_repositories" /\ ev.repos = <<>>

\* the request passed the checks of method, configuration, body and signature
Accepted == req.pc # "idle" /\ req.status \notin {400, 401, 405, 503}

BackdateAlerts(repo) ==
    {i \in 1..Len(alerts) :
        /\ alerts[i].repository_id = repo
        /\ alerts[i].alert_type \in {"backdate_suspicious", "backdate_critical"}}

\* the Commit facts of a repository that are backdated
BackdatedCommits(repo) ==
    {sha \in DOMAIN commits :
        commits[sha].repository_id = repo /\ commits[sha].is_backdated}

C25_BackdateAlertPerBackdatedCommit ==
    \A repo \in Repos :
        Cardinality(BackdateAlerts(repo)) = Cardinality(BackdatedCommits(repo))

(***************************************************************************)
(* The scorecard.                                                          *)
(***************************************************************************)
\* a scorecard request has returned a report
ScReported == sc.pc = "done" /\ sc.status = 200

\* the alerts stored for a repository with one of the types
AlertsOfTypes(repo, types) ==
    Cardinality({i \in 1..Len(alerts) : /\ alerts[i].repository_id = repo
                                         /\ alerts[i].alert_type \in types})

\* the score and status of a check that loses perAlert points per alert
PenaltyRule(check, count, perAlert) ==
    /\ check.Score \in 0..100
    /\ count = 0 => check.Score = 100 /\ check.Status = "pass"
    /\ count > 0 =>
          /\ check.Score = (IF 100 - perAlert * count > 0
                            THEN 100 - perAlert * count ELSE 0)
          /\ check.Status = (IF check.Score < 50 THEN "fail" ELSE "warn")

\* C21: in every scorecard the no-backdated-commits check has 100/pass with
\* no backdate alert of the repository and otherwise max(0, 100 - 20 * count),
\* fail below 50 and warn from 50 on; the no-force-pushes check follows the
\* same rule with 25 per alert; both scores are in 0..100; 2 force pushes
\* give 50/warn and 3 backdate alerts give 40/fail
C21_PenaltyChecks ==
    ScReported =>
        /\ sc.card.Checks[2].Name = "No Backdated Commits"
        /\ PenaltyRule(sc.card.Checks[2],
                       AlertsOfTypes(sc.name, {"backdate_suspicious",
                                               "backdate_critical"}), 20)
        /\ sc.card.Checks[3].Name = "No Force Pushes"
        /\ PenaltyRule(sc.card.Checks[3],
                       AlertsOfTypes(sc.name, {"force_push"}), 25)
        /\ AlertsOfTypes(sc.name, {"force_push"}) = 2
              => sc.card.Checks[3].Score = 50
                 /\ sc.card.Checks[3].Status = "warn"
        /\ AlertsOfTypes(sc.name, {"backdate_suspicious",
                                   "backdate_critical"}) = 3
              => sc.card.Checks[2].Score = 40
                 /\ sc.card.Checks[2].Status = "fail"

\* a report for a repository with six backdate alerts and five force pushes:
\* both penalties exceed 100
C21_Witness ==
    /\ ScReported
    /\ AlertsOfTypes(sc.name, {"backdate_suspicious", "backdate_critical"}) = 6
    /\ AlertsOfTypes(sc.name, {"force_push"}) = 5
    /\ sc.card.Checks[2].Score = 0
    /\ sc.card.Checks[3].Score = 0

\* the alerts stored for a repository with a severity
AlertsOfSeverity(repo, severity) ==
    Cardinality({i \in 1..Len(alerts) : /\ alerts[i].repository_id = repo
                                         /\ alerts[i].severity = severity})

\* C22: every scorecard has exactly five checks; its overall score is the
\* sum of the five check scores divided by 5 with truncation, so in 0..100;
\* its overall status is critical whenever the repository has an alert of
\* severity critical, whatever the score, and otherwise healthy from 80 on,
\* warning from 50 to 79 and critical below 50
C22_OverallScoreAndStatus ==
    ScReported =>
        /\ Len(sc.card.Checks) = 5
        /\ sc.card.OverallScore =
              (sc.card.Checks[1].Score + sc.card.Checks[2].Score
                 + sc.card.Checks[3].Score + sc.card.Checks[4].Score
                 + sc.card.Checks[5].Score) \div 5
        /\ sc.card.OverallScore \in 0..100
        /\ sc.card.OverallStatus =
              (IF AlertsOfSeverity(sc.name, "critical") > 0 THEN "critical"
               ELSE IF sc.card.OverallScore >= 80 THEN "healthy"
               ELSE IF sc.card.OverallScore >= 50 THEN "warning"
               ELSE "critical")

\* a report of overall score 96 for a repository with one critical alert
C22_Witness ==
    /\ ScReported
    /\ AlertsOfSeverity(sc.name, "critical") = 1
    /\ sc.card.OverallScore = 96
    /\ sc.card.OverallStatus = "critical"

\* the report being returned and the last report returned are for the same
\* repository
SecondReport ==
    /\ ScReported
    /\ sc.prev # NoCard
    /\ sc.prev.Repository.FullName = sc.name

\* a scorecard request writes nothing to the store
ScorecardReadsOnly == [][sc' # sc => UNCHANGED storeVars]_vars

\* C23: building a scorecard is a pure function of the stored facts: a
\* scorecard request creates, changes or deletes no record, and two
\* requests for the same repository with no store write between them return
\* the same checks, overall score, overall status and activity summary,
\* whatever time passes between them
C23_ScorecardPure ==
    /\ ScorecardReadsOnly
    /\ [](SecondReport =>
            /\ sc.card.Checks = sc.prev.Checks
            /\ sc.card.OverallScore = sc.prev.OverallScore
            /\ sc.card.OverallStatus = sc.prev.OverallStatus
            /\ sc.card.ActivitySummary = sc.prev.ActivitySummary)

\* two reports on the same store agree on everything but the days since the
\* last activity
C23_SameButDays ==
    SecondReport =>
        /\ sc.card.Checks = sc.prev.Checks
        /\ sc.card.OverallScore = sc.prev.OverallScore
        /\ sc.card.OverallStatus = sc.prev.OverallStatus
        /\ [sc.card.ActivitySummary EXCEPT !.DaysSinceActivity = 0]
             = [sc.prev.ActivitySummary EXCEPT !.DaysSinceActivity = 0]

(***************************************************************************)
(* The activity streak.                                                    *)
(***************************************************************************)
\* the streak status of a stored repository changes in this step
StreakChanges(r) ==
    /\ r \in DOMAIN repositories
    /\ repositories'[r].streak_status # repositories[r].streak_status

\* the step is CheckStreaks marking r, whose last activity is older than the
\* inactivity window
MarkedAtRisk(r) ==
    /\ repositories[r].streak_status = "active"
    /\ repositories'[r].streak_status = "at_risk"
    /\ repositories[r].last_activity_at # Null
    /\ repositories[r].last_activity_at < now - StreakInactivityHours * Hour
    /\ req.pc = "idle" /\ req' = req

\* the step is storePushEvent storing a push to r
Reactivated(r) ==
    /\ repositories'[r].streak_status = "active"
    /\ req.pc = "push" /\ req.event.repo = r
    /\ repositories'[r].last_push_at = req.receiveTime

StreakAlerts(tbl, r) ==
    Cardinality({i \in 1..Len(tbl) : /\ tbl[i].repository_id = r
                                      /\ tbl[i].alert_type = "streak_at_risk"})

C29_AlertPerTransition ==
    [][\A r \in Repos :
         /\ (r \in DOMAIN repositories
               /\ repositories[r].streak_status = "active"
               /\ repositories'[r].streak_status = "at_risk")
              => StreakAlerts(alerts', r) = StreakAlerts(alerts, r) + 1
         /\ StreakAlerts(alerts', r) # StreakAlerts(alerts, r)
              => /\ r \in DOMAIN repositories
                 /\ repositories[r].streak_status = "active"
                 /\ repositories'[r].streak_status = "at_risk"
                 /\ StreakAlerts(alerts', r) = StreakAlerts(alerts, r) + 1]_vars

\* the same while no store statement fails
C29_AlertPerTransitionNoFault ==
    [][faults' = 0 =>
        \A r \in Repos :
         /\ (r \in DOMAIN repositories
               /\ repositories[r].streak_status = "active"
               /\ repositories'[r].streak_status = "at_risk")
              => StreakAlerts(alerts', r) = StreakAlerts(alerts, r) + 1
         /\ StreakAlerts(alerts', r) # StreakAlerts(alerts, r)
              => /\ r \in DOMAIN repositories
                 /\ repositories[r].streak_status = "active"
                 /\ repositories'[r].streak_status = "at_risk"]_vars

\* a repository at risk without any streak_at_risk alert
C29_AtRiskWithoutAlert ==
    \E r \in DOMAIN repositories :
        /\ repositories[r].streak_status = "at_risk"
        /\ StreakAlerts(alerts, r) = 0

(***************************************************************************)
(* Pushes and scorecards side by side.                                     *)
(***************************************************************************)
\* the latest receipt time among the handlers that have stored their push
LatestHandled ==
    LET times == {web[h].receiveTime : h \in {g \in Handlers :
                      web[g].pc \notin {"unused", "idle", "upsert"}}}
    IN  CHOOSE t \in times : \A u \in times : u <= t

\* C26: when two pushes to the same repository are processed concurrently
\* or in an order different from their receipt order, the repository's
\* last_push_at and last_activity_at and each contributor's last_commit_at
\* never move backwards and end at the latest receipt time handled, and
\* every contributor keeps first_commit_at <= last_commit_at
C26_TimestampsMonotonic ==
    /\ [][/\ \A r \in DOMAIN repositories :
               /\ repositories'[r].last_push_at >= repositories[r].last_push_at
               /\ repositories'[r].last_activity_at
                    >= repositories[r].last_activity_at
           /\ \A k \in DOMAIN contributors :
               contributors'[k].last_commit_at >= contributors[k].last_commit_at
          ]_vars
    /\ [](\A k \in DOMAIN contributors :
             contributors[k].first_commit_at <= contributors[k].last_commit_at)
    /\ []((\A h \in Handlers : web[h].pc = "done")
            => /\ repositories["r1"].last_push_at = LatestHandled
               /\ repositories["r1"].last_activity_at = LatestHandled)

\* a contributor whose first commit is later than its last commit
C26_FirstAfterLast ==
    \E k \in DOMAIN contributors :
        contributors[k].first_commit_at > contributors[k].last_commit_at

\* the timestamps never move backwards while the handlers store their
\* pushes in the order of their receipt times
C26_MonotonicInReceiptOrder ==
    [][(\A h \in Handlers :
          web[h].pc \notin {"unused", "idle"}
            => /\ web[h].receiveTime >= repositories["r1"].last_push_at
               /\ \A k \in DOMAIN contributors :
                    web[h].receiveTime >= contributors[k].last_commit_at)
        => /\ \A r \in DOMAIN repositories :
               repositories'[r].last_push_at >= repositories[r].last_push_at
           /\ \A k \in DOMAIN contributors :
               contributors'[k].last_commit_at >= contributors[k].last_commit_at
      ]_vars

\* C30: a scorecard built while a push to the same repository is being
\* processed corresponds to one single state of the store: the commit
\* statistics, the alert counts and the contributor list it uses are those
\* of one state the store was in during the request
C30_ScorecardOfOneState ==
    ScReported =>
        \E s \in sc.seen :
            /\ s.commitStats = sc.commitStats
            /\ s.counts = sc.counts
            /\ s.contributors = ListedRows(sc.listed)

\* a report that counts a backdate alert but no backdated commit, built
\* while each state of the store had as many backdated commits as alerts or
\* more
C30_AlertWithoutCommit ==
    /\ ScReported
    /\ sc.card.ActivitySummary.BackdateCount = 1
    /\ sc.commitStats.BackdatedCount = 0
    /\ \A s \in sc.seen :
          s.counts.typeCounts["backdate_suspicious"]
            + s.counts.typeCounts["backdate_critical"]
              <= s.commitStats.BackdatedCount

\* each query of a report returns what one state of the store held
C30_EachQueryOfSomeState ==
    ScReported =>
        /\ \E s \in sc.seen : s.commitStats = sc.commitStats
        /\ \E s \in sc.seen : s.counts = sc.counts
        /\ \E s \in sc.seen : s.contributors = ListedRows(sc.listed)

====
